---------------------------- MODULE Spec2Model ----------------------------
(***************************************************************************)
(* openbag: the recorder's capture pipeline.                               *)
(*                                                                         *)
(*   MessageBuffer  (include/openbag/buffer.hpp)                           *)
(*   Storage        (include/openbag/storage.hpp)                          *)
(*   Recorder       (include/openbag/recorder.hpp)                         *)
(*                                                                         *)
(* Threads: producer threads (bus callbacks), one consumer (the writer     *)
(* thread) and one controller thread issuing lifecycle calls.  A step is   *)
(* one atomic access to shared state: a critical section of m_mutex that   *)
(* reads no atomic written outside the mutex is one step; m_running is a   *)
(* std::atomic written by Stop/Start without the mutex, so a critical      *)
(* section is cut where it reads m_running a second time.                  *)
(***************************************************************************)
EXTENDS Integers, Sequences, FiniteSets, TLC

\* ------------------------------------------------------------------ bounds
NumProducers == 2        \* producer threads
MaxPush == 3             \* PushMessage calls begun in one behaviour
buffer_size == 2         \* largest BufferConfig.buffer_size a buffer is constructed with
MaxBatch == 2            \* largest max_batch_size a caller of a pop passes

Producers == 1..NumProducers
Topics == {"a", "b"}
NoThread == 0            \* m_mutex is free
Consumer == NumProducers + 1   \* id of the single consuming thread

VARIABLES
    \* MessageBuffer
    m_messageQueue,         \* std::deque<MessagePtr>
    m_topicQueues,          \* unordered_map<string, deque<MessagePtr>>: a function on the keys present
    buffer_running,         \* MessageBuffer::m_running (atomic)
    buffer_totalMessages,   \* MessageBuffer::m_totalMessages
    m_mutex,                \* thread that holds MessageBuffer::m_mutex across steps, or NoThread
    m_maxQueueSize,         \* MessageBuffer::m_maxQueueSize, from BufferConfig.buffer_size
    \* threads
    pc,                     \* position of every producer and of the consumer
    parg,                   \* producer p's arguments of PushMessage: topic, data, timestamp
    ret,                    \* producer p's return value of PushMessage
    batch,                  \* the consumer's out-vector / returned batch
    batchSize,              \* the consumer's max_batch_size argument
    popTopic,               \* the consumer's topic argument of PopMessagesByTopic
    popRet,                 \* return value of PopMessages
    \* history
    nPush,                  \* PushMessage calls begun
    acked,                  \* records whose push was acknowledged, in enqueue order
    popped,                 \* records returned by pop calls, in return order
    blockedAtStop,          \* threads whose current call was blocked in a wait when Stop was called
    \* Storage
    m_fileInfo,             \* Storage::m_fileInfo: is_open, file_size, filename
    m_topicInfos,           \* Storage::m_topicInfos: topic -> TopicInfo
    writer_open,            \* m_writer holds an open mcap file (m_fileInfo.filename)
    files,                  \* the output directory: filename -> schemas, channels, messages
    clock,                  \* wall clock in seconds, as GenFilename last read it
    st_pc,                  \* position of the thread inside a Storage write call
    st_msgs,                \* messages of the call not yet handled
    st_all,                 \* allSuccess of WriteMessageBatch / result of WriteMessage
    st_ret,                 \* outcome of the last Storage call
    handed,                 \* records WriteSingleMessage was applied to, with its result
    size_read,              \* what the calls of GetFileSize returned, in order
    \* BuildFileDescriptorSet
    dependency,             \* FileDescriptor::dependency: file -> the files it imports, in order
    toplevelDescriptor,     \* the argument: NullDescriptor, or the file of the descriptor
    pending,                \* std::queue<const FileDescriptor*> pending
    seen,                   \* std::unordered_set<std::string> seen
    fdSet,                  \* the files of the FileDescriptorSet, in add_file order
    fds_pc,                 \* position inside BuildFileDescriptorSet
    \* Recorder
    m_state,                \* Recorder::m_state (atomic)
    recorder_running,       \* Recorder::m_running (atomic)
    recorder_totalMessages, \* Recorder::m_totalMessages (atomic)
    m_subscribers,          \* topics that have a subscriber in Recorder::m_subscribers
    ctl,                    \* position of the controller thread inside Start / Stop
    ctl_i,                  \* index of Start's loop over m_config.topics
    nRuns,                  \* calls of Start that opened the storage
    startTotal,             \* m_totalMessages as the Start in progress found it, else 0
    queueAtStop,            \* the main queue when the last Stop of this run was called
    m_config_topics,        \* Recorder::m_config.topics, in configuration order
    \* Player
    player_state,           \* Player::m_state (atomic)
    player_running,         \* Player::m_running (atomic)
    m_playedMessages,       \* Player::m_playedMessages (atomic)
    m_publishers,           \* topics that have a publisher in Player::m_publishers
    reader_open,            \* Player::m_mcapReader: "null", or m_isOpen of the Reader
    play_pc,                \* position of the playback thread, "none" without one
    play_it,                \* the playback thread's iterator: index of the next record
    published,              \* records handed to Publish, in order
    loop_playback,          \* PlayerConfig::loop_playback
    input_path,             \* PlayerConfig::input_path: "" or the name of a bag file
    playback_rate,          \* PlayerConfig::playback_rate
    lastTimestamp,          \* PlayLoop's local lastTimestamp
    firstMessage,           \* PlayLoop's local firstMessage
    slept,                  \* calls of sleep_for by the playback thread: record index and milliseconds
    requested_rate          \* history: the rate the configuration or the last SetPlaybackRate passed

bufVars == <<m_messageQueue, m_topicQueues, buffer_running, buffer_totalMessages, m_mutex,
             m_maxQueueSize>>
prodVars == <<parg, ret>>
consVars == <<batch, batchSize, popTopic, popRet>>
histVars == <<nPush, acked, popped>>
stoVars == <<m_fileInfo, m_topicInfos, writer_open, files, clock>>
callVars == <<st_pc, st_msgs, st_all, st_ret, handed>>
recVars == <<m_state, recorder_running, recorder_totalMessages, m_subscribers,
             ctl, ctl_i, nRuns, startTotal, queueAtStop>>
paceVars == <<playback_rate, lastTimestamp, firstMessage, slept, requested_rate>>
playVars == <<player_state, player_running, m_playedMessages, m_publishers, reader_open,
              play_pc, play_it, published, loop_playback, input_path, paceVars>>
fdsVars == <<dependency, toplevelDescriptor, pending, seen, fdSet, fds_pc>>
vars == <<bufVars, pc, prodVars, consVars, histVars, blockedAtStop, stoVars, callVars, recVars,
          m_config_topics, playVars, size_read, fdsVars>>
\* what the code of MessageBuffer never writes after construction
notBufferClient == <<m_maxQueueSize, stoVars, callVars, recVars, m_config_topics, playVars,
                     size_read, fdsVars>>
notBuffer == <<notBufferClient, blockedAtStop>>
\* what the code of Recorder and of Storage never writes
notRecorder == <<m_config_topics, playVars, blockedAtStop, size_read, fdsVars>>

\* --------------------------------------------------------------- helpers
Min(a, b) == IF a < b THEN a ELSE b

\* the sub-sequence of q made of the records of topic t
OfTopic(q, t) == SelectSeq(q, LAMBDA m : m.topic = t)

\* an unordered_map without entries
EmptyMap == [x \in {} |-> <<>>]

\* erase that leaves the key behind with an empty deque
MapErase_Keep(f, k) == [f EXCEPT ![k] = <<>>]

\* std::unordered_map::erase(key)
MapErase(f, k) == [x \in DOMAIN f \ {k} |-> f[x]]

\* std::unordered_map::operator[]: default-constructs a missing entry
MapIndex(f, k) == IF k \in DOMAIN f THEN f ELSE f @@ (k :> <<>>)

\* the search of the main queue that removes nothing
EraseFirst_None(q, m) == q

\* std::deque::erase of the first element equal to m (buffer.hpp:186-193)
RECURSIVE EraseFirst(_, _)
EraseFirst(q, m) ==
    IF q = <<>> THEN <<>>
    ELSE IF Head(q) = m THEN Tail(q)
    ELSE <<Head(q)>> \o EraseFirst(Tail(q), m)


\* ----------------------------------------------------------- MessageBuffer
\* the arguments of a thread that is not inside PushMessage
NoArg == [topic |-> "a", data |-> 0, timestamp |-> 0]

\* the capacity test written with > in place of >=
QueueFull_OffByOne(q) == Len(q) > m_maxQueueSize

\* buffer.hpp:66 and the first disjunct of the wait predicate at :69
QueueFull(q) == Len(q) >= m_maxQueueSize

\* buffer.hpp:82-86: the Message a successful push assembles
NewMessage(a, seq) ==
    [topic |-> a.topic, data |-> a.data, timestamp |-> a.timestamp,
     sequence_number |-> seq]

\* push_front in place of push_back
PushBackMain_Front(q, m) == <<m>> \o q

\* buffer.hpp:88: m_messageQueue.push_back(message)
PushBackMain(q, m) == Append(q, m)

\* buffer.hpp:89: m_topicQueues[topic].push_back(message)
PushBackTopic(tq, m) ==
    [MapIndex(tq, m.topic) EXCEPT ![m.topic] = Append(@, m)]

\* buffer.hpp:82-95: the tail of PushMessage, run with m_mutex held by p
Enqueue(p) ==
    LET message == NewMessage(parg[p], buffer_totalMessages) IN
    /\ buffer_totalMessages' = buffer_totalMessages + 1
    /\ m_messageQueue' = PushBackMain(m_messageQueue, message)
    /\ m_topicQueues' = PushBackTopic(m_topicQueues, message)
    /\ acked' = Append(acked, message)
    /\ ret' = [ret EXCEPT ![p] = TRUE]
    /\ parg' = [parg EXCEPT ![p] = NoArg]
    /\ pc' = [pc EXCEPT ![p] = "push_ret"]

\* a refusal that has already taken a sequence number
Refuse_Consumes(p) ==
    /\ ret' = [ret EXCEPT ![p] = FALSE]
    /\ parg' = [parg EXCEPT ![p] = NoArg]
    /\ pc' = [pc EXCEPT ![p] = "push_ret"]
    /\ buffer_totalMessages' = buffer_totalMessages + 1
    /\ UNCHANGED <<m_messageQueue, m_topicQueues, acked>>

\* PushMessage returns false: nothing of the buffer changes
Refuse(p) ==
    /\ ret' = [ret EXCEPT ![p] = FALSE]
    /\ parg' = [parg EXCEPT ![p] = NoArg]
    /\ pc' = [pc EXCEPT ![p] = "push_ret"]
    /\ UNCHANGED <<m_messageQueue, m_topicQueues, buffer_totalMessages, acked>>

\* buffer.hpp:56-61: PushMessage(a.topic, a.data, a.timestamp) is entered by
\* thread p: the unlocked fast-path test of m_running
PushMessage_Enter(p, a) ==
    /\ IF ~buffer_running
          THEN Refuse(p)
          ELSE /\ pc' = [pc EXCEPT ![p] = "push_lock"]
               /\ parg' = [parg EXCEPT ![p] = a]
               /\ UNCHANGED <<m_messageQueue, m_topicQueues, buffer_totalMessages, acked, ret>>
    /\ UNCHANGED <<buffer_running, m_mutex>>

\* buffer.hpp:63-69: lock, test for a full queue, first evaluation of the wait
\* predicate; with room, the push completes in the same critical section
PushMessage_Lock(p) ==
    /\ pc[p] = "push_lock"
    /\ m_mutex = NoThread
    /\ IF QueueFull(m_messageQueue)
          THEN /\ IF ~QueueFull(m_messageQueue) \/ ~buffer_running
                     THEN /\ pc' = [pc EXCEPT ![p] = "push_recheck"]
                          /\ m_mutex' = p
                     ELSE /\ pc' = [pc EXCEPT ![p] = "push_wait"]
                          /\ m_mutex' = NoThread
               /\ UNCHANGED <<m_messageQueue, m_topicQueues, buffer_totalMessages, acked, prodVars>>
          ELSE /\ Enqueue(p)
               /\ m_mutex' = NoThread
    /\ UNCHANGED <<buffer_running, consVars, nPush, popped>>
    /\ UNCHANGED notBuffer

\* buffer.hpp:69: a waiter of m_notFull wakes (notified or spuriously), takes
\* the mutex again and finds the predicate true: wait_for returns true
PushMessage_Wake(p) ==
    /\ pc[p] = "push_wait"
    /\ m_mutex = NoThread
    /\ ~QueueFull(m_messageQueue) \/ ~buffer_running
    /\ pc' = [pc EXCEPT ![p] = "push_recheck"]
    /\ m_mutex' = p
    /\ UNCHANGED <<m_messageQueue, m_topicQueues, buffer_running, buffer_totalMessages,
                   prodVars, consVars, histVars>>
    /\ UNCHANGED notBuffer

\* buffer.hpp:69-73: the 100 ms pass with the predicate still false
PushMessage_Timeout(p) ==
    /\ pc[p] = "push_wait"
    /\ m_mutex = NoThread
    /\ ~(~QueueFull(m_messageQueue) \/ ~buffer_running)
    /\ Refuse(p)
    /\ UNCHANGED <<buffer_running, m_mutex, consVars, nPush, popped>>
    /\ UNCHANGED notBuffer

\* buffer.hpp:75-95: after the wait, m_running is read again, mutex held
PushMessage_Recheck(p) ==
    /\ pc[p] = "push_recheck"
    /\ m_mutex = p
    /\ IF ~buffer_running THEN Refuse(p) ELSE Enqueue(p)
    /\ m_mutex' = NoThread
    /\ UNCHANGED <<buffer_running, consVars, nPush, popped>>
    /\ UNCHANGED notBuffer

\* buffer.hpp:123-140: the loop of PopMessages, count iterations
RECURSIVE PopLoop(_, _, _, _)
PopLoop(q, tq, out, count) ==
    IF count = 0 THEN [q |-> q, tq |-> tq, out |-> out]
    ELSE LET message == Head(q)
             tq0 == MapIndex(tq, message.topic)
             topicQueue == tq0[message.topic]
             tq1 == IF topicQueue # <<>>
                       THEN IF Tail(topicQueue) = <<>>
                               THEN MapErase(tq0, message.topic)
                               ELSE [tq0 EXCEPT ![message.topic] = Tail(topicQueue)]
                       ELSE tq0
         IN PopLoop(Tail(q), tq1, Append(out, message), count - 1)

\* buffer.hpp:116-146: PopMessages after the wait, in one critical section
PopMessages_Body ==
    IF m_messageQueue = <<>>
       THEN /\ popRet' = FALSE
            /\ UNCHANGED <<m_messageQueue, m_topicQueues, batch, popped>>
       ELSE LET count == Min(batchSize, Len(m_messageQueue))
                r == PopLoop(m_messageQueue, m_topicQueues, batch, count)
            IN /\ m_messageQueue' = r.q
               /\ m_topicQueues' = r.tq
               /\ batch' = r.out
               /\ popped' = popped \o SubSeq(m_messageQueue, 1, count)
               /\ popRet' = (r.out # <<>>)

\* buffer.hpp:107-113: lock; an empty queue of a running buffer waits
PopMessages_Enter ==
    /\ pc[Consumer] = "pop_enter"
    /\ m_mutex = NoThread
    /\ IF m_messageQueue = <<>> /\ buffer_running
          THEN /\ pc' = [pc EXCEPT ![Consumer] = "pop_wait"]
               /\ UNCHANGED <<m_messageQueue, m_topicQueues, batch, popped, popRet>>
          ELSE /\ PopMessages_Body
               /\ pc' = [pc EXCEPT ![Consumer] = "pop_ret"]
    /\ UNCHANGED <<buffer_running, buffer_totalMessages, m_mutex, prodVars,
                   batchSize, popTopic, nPush, acked>>
    /\ UNCHANGED notBuffer

\* buffer.hpp:112: the waiter of m_notEmpty wakes with the predicate true
PopMessages_Wake ==
    /\ pc[Consumer] = "pop_wait"
    /\ m_mutex = NoThread
    /\ m_messageQueue # <<>> \/ ~buffer_running
    /\ PopMessages_Body
    /\ pc' = [pc EXCEPT ![Consumer] = "pop_ret"]
    /\ UNCHANGED <<buffer_running, buffer_totalMessages, m_mutex, prodVars,
                   batchSize, popTopic, nPush, acked>>
    /\ UNCHANGED notBuffer

\* buffer.hpp:112-119: timeout_ms pass with the predicate false
PopMessages_Timeout ==
    /\ pc[Consumer] = "pop_wait"
    /\ m_mutex = NoThread
    /\ ~(m_messageQueue # <<>> \/ ~buffer_running)
    /\ PopMessages_Body
    /\ pc' = [pc EXCEPT ![Consumer] = "pop_ret"]
    /\ UNCHANGED <<buffer_running, buffer_totalMessages, m_mutex, prodVars,
                   batchSize, popTopic, nPush, acked>>
    /\ UNCHANGED notBuffer

\* buffer.hpp:180-196: the loop of PopMessagesByTopic
RECURSIVE PopTopicLoop(_, _, _, _)
PopTopicLoop(q, topicQueue, out, count) ==
    IF count = 0 THEN [q |-> q, topicQueue |-> topicQueue, out |-> out]
    ELSE LET message == Head(topicQueue)
         IN PopTopicLoop(EraseFirst(q, message), Tail(topicQueue),
                         Append(out, message), count - 1)

\* a test that returns the empty batch only when the topic has no sub-queue
ReturnsEmptyBatch_IgnoresStop(present, running) == ~present

\* buffer.hpp:170-174: without a sub-queue of the topic, or on a stopped
\* buffer, the empty batch is returned
ReturnsEmptyBatch(present, running) == ~present \/ ~running

\* buffer.hpp:171-208: PopMessagesByTopic after the wait
PopMessagesByTopic_Body ==
    IF ReturnsEmptyBatch(popTopic \in DOMAIN m_topicQueues, buffer_running)
       THEN /\ batch' = <<>>
            /\ UNCHANGED <<m_messageQueue, m_topicQueues, popped>>
       ELSE LET topicQueue == m_topicQueues[popTopic]
                count == Min(batchSize, Len(topicQueue))
                r == PopTopicLoop(m_messageQueue, topicQueue, <<>>, count)
            IN /\ m_messageQueue' = r.q
               /\ m_topicQueues' = IF r.topicQueue = <<>>
                                      THEN MapErase(m_topicQueues, popTopic)
                                      ELSE [m_topicQueues EXCEPT ![popTopic] = r.topicQueue]
               /\ batch' = r.out
               /\ popped' = popped \o r.out

\* buffer.hpp:158-168: lock; a missing topic of a running buffer waits
PopMessagesByTopic_Enter ==
    /\ pc[Consumer] = "popt_enter"
    /\ m_mutex = NoThread
    /\ IF popTopic \notin DOMAIN m_topicQueues /\ buffer_running
          THEN /\ pc' = [pc EXCEPT ![Consumer] = "popt_wait"]
               /\ UNCHANGED <<m_messageQueue, m_topicQueues, batch, popped>>
          ELSE /\ PopMessagesByTopic_Body
               /\ pc' = [pc EXCEPT ![Consumer] = "pop_ret"]
    /\ UNCHANGED <<buffer_running, buffer_totalMessages, m_mutex, prodVars,
                   batchSize, popTopic, popRet, nPush, acked>>
    /\ UNCHANGED notBuffer

\* buffer.hpp:165-167: the wait of PopMessagesByTopic ends, by its predicate
\* or by the timeout
PopMessagesByTopic_Wake ==
    /\ pc[Consumer] = "popt_wait"
    /\ m_mutex = NoThread
    /\ PopMessagesByTopic_Body
    /\ pc' = [pc EXCEPT ![Consumer] = "pop_ret"]
    /\ UNCHANGED <<buffer_running, buffer_totalMessages, m_mutex, prodVars,
                   batchSize, popTopic, popRet, nPush, acked>>
    /\ UNCHANGED notBuffer

\* buffer.hpp:241-246
Clear ==
    /\ m_mutex = NoThread
    /\ m_messageQueue' = <<>>
    /\ m_topicQueues' = EmptyMap

\* buffer.hpp:251-256: the store; the notify_all calls wake waiters, which may
\* wake at any time anyway
BufferStop == buffer_running' = FALSE

\* buffer.hpp:258-263
BufferStart == buffer_running' = TRUE

PushSteps(p) ==
    \/ PushMessage_Lock(p)
    \/ PushMessage_Wake(p)
    \/ PushMessage_Timeout(p)
    \/ PushMessage_Recheck(p)

PopSteps ==
    \/ PopMessages_Enter
    \/ PopMessages_Wake
    \/ PopMessages_Timeout

PopByTopicSteps ==
    \/ PopMessagesByTopic_Enter
    \/ PopMessagesByTopic_Wake

\* MessageBuffer::MessageBuffer (buffer.hpp:42): running, counter 0, empty
BufferInit ==
    /\ m_messageQueue = <<>>
    /\ m_topicQueues = EmptyMap
    /\ buffer_running = TRUE
    /\ buffer_totalMessages = 0
    /\ m_mutex = NoThread
    /\ m_maxQueueSize \in 1..buffer_size

ThreadInit ==
    /\ pc = [t \in Producers \cup {Consumer} |-> "idle"]
    /\ parg = [p \in Producers |-> NoArg]
    /\ ret = [p \in Producers |-> FALSE]
    /\ batch = <<>>
    /\ batchSize = 0
    /\ popTopic = "a"
    /\ popRet = FALSE
    /\ nPush = 0
    /\ acked = <<>>
    /\ popped = <<>>
    /\ blockedAtStop = {}


\* ----------------------------------------------------------------- Storage
RecordOverhead == 30     \* storage.hpp:368: 2 + 4 + 8 + 8 + 8 bytes of fixed fields
PayloadBytes == 10       \* data.size() of every payload of the model
max_file_size == 80      \* StorageConfig.max_file_size chosen for the model
MaxClock == 3            \* last second the wall clock reaches

split_by_size == TRUE    \* StorageConfig.split_by_size (config.hpp:38)

\* the fully-qualified message type configured for a topic
ProtoType(t) == IF t = "a" THEN "pkg.A" ELSE "pkg.B"

\* a TopicInfo as LoadRecorderConfig builds it (config.hpp:134): the ids are
\* value-initialised
ConfigTopicInfo(t) ==
    [topic_name |-> t, proto_type |-> ProtoType(t), schema_id |-> 0, channel_id |-> 0]

\* a file that open() has just created or truncated
NewFile == [schemas |-> {}, channels |-> {}, messages |-> <<>>]

\* FileInfo as default-constructed (common.hpp:76-84); filename 0 is ""
NoFileInfo == [is_open |-> FALSE, file_size |-> 0, filename |-> 0]

\* the seconds GenFilename can read from the wall clock: time does not go back
Now == {t \in {clock, clock + 1} : t <= MaxClock}

\* FileInfo.output_path of the model is a directory; with the empty path
\* GenFilename takes the other branch (storage.hpp:50-53)
output_path_empty == FALSE

\* the fixed name "./openbags/<prefix>.<extension>"
FixedName == -1

\* storage.hpp:47-64 with common.hpp:176-184: without an output path the
\* fixed name; else the prefix, the wall clock cut to whole seconds, and the
\* extension
GenFilename(now) == IF output_path_empty THEN FixedName ELSE now

\* the directory after m_writer->open(name): the file exists and is empty
Created(fs, name) ==
    [f \in DOMAIN fs \cup {name} |-> IF f = name THEN NewFile ELSE fs[f]]

\* storage.hpp:282-331, the descriptor found: schema and channel are added to
\* the open file and the TopicInfo is stored; st is [topicInfos, file]
RegisterTopicImpl(st, topicInfo) ==
    LET schema_id == Cardinality(DOMAIN st.topicInfos) + 1
        info == [topicInfo EXCEPT !.schema_id = schema_id]
        schema == [id |-> schema_id, name |-> info.proto_type]
        channel == [id |-> info.channel_id, topic |-> info.topic_name,
                    schemaId |-> schema_id]
        t == info.topic_name
    IN [topicInfos |-> [x \in DOMAIN st.topicInfos \cup {t} |->
                           IF x = t THEN info ELSE st.topicInfos[x]],
        file |-> [st.file EXCEPT !.schemas = @ \cup {schema},
                                 !.channels = @ \cup {channel}]]

\* a rotation that registers nothing in the new file
RegisterAll_None(st, S) == st

\* storage.hpp:399-402: every known topic is registered again
RECURSIVE RegisterAll(_, _)
RegisterAll(st, S) ==
    IF S = {} THEN st
    ELSE LET t == CHOOSE x \in S : TRUE
         IN RegisterAll(RegisterTopicImpl(st, st.topicInfos[t]), S \ {t})

\* an Open that does not look at m_fileInfo.is_open
OpenSucceeds_Reopens(openOk) == openOk

\* storage.hpp:94-129: Open(fileInfo); the result is OpenSucceeds
OpenSucceeds(openOk) == ~m_fileInfo.is_open /\ openOk

Open(now, openOk) ==
    IF m_fileInfo.is_open
       THEN UNCHANGED stoVars
       ELSE /\ clock' = now
            /\ IF openOk
                  THEN /\ writer_open' = TRUE
                       /\ files' = Created(files, GenFilename(now))
                       /\ m_fileInfo' = [is_open |-> TRUE, file_size |-> 0,
                                         filename |-> GenFilename(now)]
                       /\ m_topicInfos' = EmptyMap
                  ELSE /\ writer_open' = FALSE
                       /\ UNCHANGED <<files, m_fileInfo, m_topicInfos>>

\* storage.hpp:134-164
Close ==
    IF ~m_fileInfo.is_open
       THEN UNCHANGED stoVars
       ELSE /\ writer_open' = FALSE
            /\ m_fileInfo' = [m_fileInfo EXCEPT !.is_open = FALSE, !.file_size = 0]
            /\ UNCHANGED <<files, m_topicInfos, clock>>

\* storage.hpp:183-193: RegisterTopic(topicInfo) on an open storage; found is
\* false when the import or the descriptor lookup fails
RegisterTopic(t, found) ==
    IF ~found
       THEN UNCHANGED stoVars
       ELSE LET r == RegisterTopicImpl(
                        [topicInfos |-> m_topicInfos, file |-> files[m_fileInfo.filename]],
                        ConfigTopicInfo(t))
            IN /\ m_topicInfos' = r.topicInfos
               /\ files' = [files EXCEPT ![m_fileInfo.filename] = r.file]
               /\ UNCHANGED <<m_fileInfo, writer_open, clock>>

\* storage.hpp:341-346: the lookup of the topic's channel
TopicKnown(tis, topic) == topic \in DOMAIN tis

\* storage.hpp:349-356: the mcap::Message built from a record
McapMessage(tis, message) ==
    [channelId |-> tis[message.topic].channel_id,
     sequence |-> message.sequence_number,
     logTime |-> message.timestamp * 1000,
     publishTime |-> message.timestamp * 1000,
     data |-> message.data,
     topic |-> message.topic]

\* storage.hpp:333-371: does WriteSingleMessage return true; ok is the status
\* of m_writer->write, which also fails on a writer that is not open
WriteSucceeds(message, ok) ==
    TopicKnown(m_topicInfos, message.topic) /\ writer_open /\ ok

\* the size updated before the outcome of the write is known
SizeAfterWrite_Always(size, success) == size + PayloadBytes + RecordOverhead

\* storage.hpp:367-368: the size after WriteSingleMessage
SizeAfterWrite(size, success) ==
    IF success THEN size + PayloadBytes + RecordOverhead ELSE size

\* storage.hpp:333-371
WriteSingleMessage(message, ok) ==
    LET success == WriteSucceeds(message, ok) IN
    /\ files' = IF success
                   THEN [files EXCEPT ![m_fileInfo.filename].messages =
                            Append(@, McapMessage(m_topicInfos, message))]
                   ELSE files
    /\ m_fileInfo' = [m_fileInfo EXCEPT !.file_size = SizeAfterWrite(@, success)]
    /\ handed' = Append(handed, [m |-> message, ok |-> success])
    /\ UNCHANGED <<m_topicInfos, writer_open, clock>>

\* storage.hpp:375: the rotation test
SplitNeeded == split_by_size /\ m_fileInfo.file_size >= max_file_size

\* storage.hpp:373-404; with openOk false the function throws
TrySplitFileIfNeeded(now, openOk) ==
    IF ~SplitNeeded
       THEN UNCHANGED stoVars
       ELSE /\ clock' = now
            /\ IF ~openOk
                  THEN /\ writer_open' = FALSE
                       /\ UNCHANGED <<files, m_fileInfo, m_topicInfos>>
                  ELSE LET name == GenFilename(now)
                           r == RegisterAll([topicInfos |-> m_topicInfos, file |-> NewFile],
                                            DOMAIN m_topicInfos)
                       IN /\ writer_open' = TRUE
                          /\ files' = [Created(files, name) EXCEPT ![name] = r.file]
                          /\ m_fileInfo' = [is_open |-> TRUE, file_size |-> 0,
                                            filename |-> name]
                          /\ m_topicInfos' = r.topicInfos

\* storage.hpp:222-230: WriteMessageBatch(messages) is entered
WriteMessageBatch_Enter(messages) ==
    /\ IF ~m_fileInfo.is_open \/ messages = <<>>
          THEN /\ st_pc' = "done"
               /\ st_ret' = "false"
               /\ st_msgs' = <<>>
          ELSE /\ st_pc' = "batch"
               /\ st_ret' = "none"
               /\ st_msgs' = messages
    /\ st_all' = TRUE
    /\ UNCHANGED <<stoVars, handed>>

\* storage.hpp:200-208: WriteMessage(message) is entered
WriteMessage_Enter(message) ==
    /\ IF ~m_fileInfo.is_open
          THEN /\ st_pc' = "done"
               /\ st_ret' = "false"
               /\ st_msgs' = <<>>
          ELSE /\ st_pc' = "single"
               /\ st_ret' = "none"
               /\ st_msgs' = <<message>>
    /\ st_all' = TRUE
    /\ UNCHANGED <<stoVars, handed>>

\* a write call that gives up at its first failed record
StopsAtFailure_Always(kind) == TRUE

\* storage.hpp:210-211 and :237-240: WriteMessage returns at its failed
\* record, WriteMessageBatch notes the failure and goes on
StopsAtFailure(kind) == kind = "single"

\* storage.hpp:233-241 and :210-211: WriteSingleMessage on the next message;
\* WriteMessage returns false at once when it fails.  io is the set of
\* outcomes of m_writer->write the environment can produce
Storage_WriteNext(io) ==
    /\ st_pc \in {"batch", "single"}
    /\ st_msgs # <<>>
    /\ \E ok \in io :
          /\ WriteSingleMessage(Head(st_msgs), ok)
          /\ st_all' = (st_all /\ WriteSucceeds(Head(st_msgs), ok))
          /\ IF StopsAtFailure(st_pc) /\ ~WriteSucceeds(Head(st_msgs), ok)
                THEN st_pc' = "done" /\ st_ret' = "false"
                ELSE UNCHANGED <<st_pc, st_ret>>
    /\ st_msgs' = Tail(st_msgs)
    /\ UNCHANGED <<bufVars, pc, prodVars, consVars, histVars, recVars>>
    /\ UNCHANGED notRecorder

\* storage.hpp:243-244 and :213-214: TrySplitFileIfNeeded, then the return;
\* io is the set of outcomes of m_writer->open
Storage_SplitAndReturn(io) ==
    /\ st_pc \in {"batch", "single"}
    /\ st_msgs = <<>>
    /\ \E now \in Now, openOk \in io :
          /\ TrySplitFileIfNeeded(now, openOk)
          /\ st_ret' = IF SplitNeeded /\ ~openOk THEN "throw"
                       ELSE IF st_all THEN "true" ELSE "false"
    /\ st_pc' = "done"
    /\ UNCHANGED <<st_msgs, st_all, handed>>
    /\ UNCHANGED <<bufVars, pc, prodVars, consVars, histVars, recVars>>
    /\ UNCHANGED notRecorder

\* the calling thread of a write call holds Storage::m_mutex from the
\* lock_guard (storage.hpp:208, :230) to the return
StorageLocked == st_pc \in {"batch", "single"}

\* storage.hpp:264: GetFileSize returns m_fileInfo.file_size; it takes no
\* lock, so the controller thread's call is not held up by a write call in
\* progress on the writer thread.  One call is made in a behaviour.
GetFileSize ==
    /\ size_read = <<>>
    /\ size_read' = <<m_fileInfo.file_size>>
    /\ UNCHANGED <<bufVars, pc, prodVars, consVars, histVars, blockedAtStop, stoVars,
                   callVars, recVars, m_config_topics, playVars, fdsVars>>

\* ------------------------------------------------ BuildFileDescriptorSet
MaxFiles == 4            \* .proto files of a dependency graph
MaxDeps == 2             \* import statements of one file

\* the files, by name; file 1 is the file of the top-level descriptor
ProtoFiles == 1..MaxFiles

\* a null Descriptor pointer
NullDescriptor == 0

\* the import lists a file can have: the protobuf importer accepts no cycle of
\* imports, so a file imports files of higher number only, in any order, the
\* same file possibly twice
ImportLists(f) ==
    UNION {[1..n -> {g \in ProtoFiles : g > f}] : n \in 0..MaxDeps}

\* seen.insert(name).second with every name taken for new
Unseen_Always(names, name) == TRUE

\* proto_utils.hpp:127: seen.insert(name).second
Unseen(names, name) == name \notin names

\* proto_utils.hpp:123-131: the loop over the dependencies deps of a file,
\* from index i; st is [pending, seen]
RECURSIVE VisitDependencies(_, _, _)
VisitDependencies(deps, i, st) ==
    IF i > Len(deps) THEN st
    ELSE VisitDependencies(deps, i + 1,
            IF Unseen(st.seen, deps[i])
               THEN [pending |-> Append(st.pending, deps[i]),
                     seen |-> st.seen \cup {deps[i]}]
               ELSE st)

\* proto_utils.hpp:102-113: BuildFileDescriptorSet(toplevelDescriptor) is
\* entered; a null descriptor returns the empty set at once
BuildFileDescriptorSet_Enter ==
    /\ fds_pc = "idle"
    /\ fdSet' = <<>>
    /\ IF toplevelDescriptor = NullDescriptor
          THEN /\ fds_pc' = "done"
               /\ UNCHANGED <<pending, seen>>
          ELSE /\ pending' = <<toplevelDescriptor>>
               /\ seen' = {toplevelDescriptor}
               /\ fds_pc' = "loop"
    /\ UNCHANGED <<dependency, toplevelDescriptor>>
    /\ UNCHANGED <<bufVars, pc, prodVars, consVars, histVars, blockedAtStop, stoVars,
                   callVars, recVars, m_config_topics, playVars, size_read>>

\* proto_utils.hpp:115-132: one iteration of the loop: the front of pending is
\* popped and copied into the set, its dependencies not seen before are
\* pushed
BuildFileDescriptorSet_Loop ==
    /\ fds_pc = "loop"
    /\ pending # <<>>
    /\ LET fdesc == Head(pending)
           st == VisitDependencies(dependency[fdesc], 1,
                                   [pending |-> Tail(pending), seen |-> seen])
       IN /\ fdSet' = Append(fdSet, fdesc)
          /\ pending' = st.pending
          /\ seen' = st.seen
    /\ UNCHANGED <<dependency, toplevelDescriptor, fds_pc>>
    /\ UNCHANGED <<bufVars, pc, prodVars, consVars, histVars, blockedAtStop, stoVars,
                   callVars, recVars, m_config_topics, playVars, size_read>>

\* proto_utils.hpp:115 and :135: pending is empty, fdSet is returned
BuildFileDescriptorSet_Return ==
    /\ fds_pc = "loop"
    /\ pending = <<>>
    /\ fds_pc' = "done"
    /\ UNCHANGED <<dependency, toplevelDescriptor, pending, seen, fdSet>>
    /\ UNCHANGED <<bufVars, pc, prodVars, consVars, histVars, blockedAtStop, stoVars,
                   callVars, recVars, m_config_topics, playVars, size_read>>

\* no call of BuildFileDescriptorSet is in progress
NoDescriptorCall ==
    /\ pending = <<>>
    /\ seen = {}
    /\ fdSet = <<>>
    /\ fds_pc = "idle"

\* the state of the storage after construction
StorageFileInit ==
    /\ size_read = <<>>
    /\ m_fileInfo = NoFileInfo
    /\ m_topicInfos = EmptyMap
    /\ writer_open = FALSE
    /\ files = EmptyMap
    /\ clock = 1
    /\ st_pc = "idle"
    /\ st_msgs = <<>>
    /\ st_all = TRUE
    /\ st_ret = "none"
    /\ handed = <<>>

\* in the behaviours of the other components the storage registers the type
\* of one file without imports
StorageInit ==
    /\ StorageFileInit
    /\ NoDescriptorCall
    /\ dependency = [f \in ProtoFiles |-> <<>>]
    /\ toplevelDescriptor = 1

\* ------------------------------------------------------------------ Player
MaxPublish == 3          \* records the playback thread publishes in one behaviour

\* the records of the input file, in the order GetMessages enumerates them:
\* protobuf says that the record has a schema whose encoding is "protobuf",
\* topic is the topic of the record's channel, "" when the channel is not
\* among the channels of the file
PlayFile ==
    <<[topic |-> "a", data |-> 1, logTime |-> 1000000, protobuf |-> TRUE],
      [topic |-> "b", data |-> 2, logTime |-> 2000000, protobuf |-> FALSE],
      [topic |-> "", data |-> 3, logTime |-> 4000000, protobuf |-> TRUE],
      [topic |-> "c", data |-> 4, logTime |-> 6000000, protobuf |-> TRUE],
      [topic |-> "b", data |-> 5, logTime |-> 9000000, protobuf |-> TRUE]>>

\* nanoseconds in a millisecond: the divisor of player.hpp:316
NsPerMs == 1000000

\* the rates a configuration or a caller of SetPlaybackRate passes, as whole
\* numbers
Rates == {-1, 0, 1, 2}

\* reader.hpp:94-110: the topics of the channels of the input file
AvailableTopics == {PlayFile[i].topic : i \in 1..Len(PlayFile)} \ {""}

\* player.hpp:126-130: the topics for which m_publisherFunc returns a
\* publisher
PublisherTopics == {"a", "b"}

\* what the code of Player never writes; ctl is the controller thread, which
\* calls the Player as it calls the Recorder
notPlayer == <<bufVars, pc, prodVars, consVars, histVars, stoVars, callVars,
               m_state, recorder_running, recorder_totalMessages, m_subscribers,
               ctl_i, nRuns, startTotal, queueAtStop, m_config_topics, blockedAtStop,
               size_read, fdsVars>>

\* std::thread::joinable of m_playThread: a thread was started and not joined
Joinable == play_pc # "none"

\* player.hpp:87-144: Start on a player that is not PLAYING and has an input
\* file (:89-97).  The reader is replaced (:100); a file that cannot be opened makes Start return false
\* (:107-110).  Otherwise the publishers are created, the counter is reset, the
\* state becomes PLAYING and the thread is started (:141): assigning to a
\* joinable std::thread calls std::terminate.  A file without channels makes
\* Start return false with the reader open (:113-117).
PlayerStart ==
    /\ ctl = "idle"
    /\ player_state # "PLAYING"
    /\ input_path # ""
    /\ \E openOk \in BOOLEAN, availableTopics \in {{}, AvailableTopics} :
          IF ~openOk \/ availableTopics = {}
             THEN /\ reader_open' = IF openOk THEN "open" ELSE "closed"
                  /\ ctl' = "pstart_false"
                  /\ UNCHANGED <<player_state, player_running, m_playedMessages,
                                 m_publishers, play_pc, play_it>>
             ELSE /\ reader_open' = "open"
                  /\ m_publishers' = availableTopics \cap PublisherTopics
                  /\ m_playedMessages' = 0
                  /\ player_state' = "PLAYING"
                  /\ player_running' = TRUE
                  /\ IF Joinable
                        THEN ctl' = "terminated" /\ UNCHANGED <<play_pc, play_it>>
                        ELSE /\ play_pc' = "begin"
                             /\ play_it' = 0
                             /\ UNCHANGED ctl
    /\ UNCHANGED <<published, loop_playback, input_path>>
    /\ UNCHANGED <<paceVars, notPlayer>>

\* a Stop that goes on in every state
PlayerStopApplies_Always(state) == TRUE

\* player.hpp:158-161: Stop goes on unless the player is STOPPED
PlayerStopApplies(state) == state # "STOPPED"

\* player.hpp:158-164: Stop on a player that is not STOPPED stores STOPPED
PlayerStop_Enter ==
    /\ ctl = "idle"
    /\ PlayerStopApplies(player_state)
    /\ player_state' = "STOPPED"
    /\ ctl' = "pstop_signal"
    /\ UNCHANGED <<player_running, m_playedMessages, m_publishers, reader_open,
                   play_pc, play_it, published, loop_playback, input_path>>
    /\ UNCHANGED <<paceVars, notPlayer>>

\* m_playPauseCV.notify_all(): a thread blocked in the wait evaluates its
\* predicate again
NotifyAll(at) == IF at = "pause_blocked" THEN "pause_eval" ELSE at

\* player.hpp:167-168: m_running = false; m_playPauseCV.notify_all()
PlayerStop_Signal ==
    /\ ctl = "pstop_signal"
    /\ player_running' = FALSE
    /\ play_pc' = NotifyAll(play_pc)
    /\ ctl' = "pstop_join"
    /\ UNCHANGED <<player_state, m_playedMessages, m_publishers, reader_open,
                   play_it, published, loop_playback, input_path>>
    /\ UNCHANGED <<paceVars, notPlayer>>

\* player.hpp:169-172: a joinable thread is joined once PlayLoop has returned
PlayerStop_Join ==
    /\ ctl = "pstop_join"
    /\ IF Joinable
          THEN play_pc = "done" /\ play_pc' = "none"
          ELSE UNCHANGED play_pc
    /\ ctl' = "pstop_close"
    /\ UNCHANGED <<player_state, player_running, m_playedMessages, m_publishers,
                   reader_open, play_it, published, loop_playback, input_path>>
    /\ UNCHANGED <<paceVars, notPlayer>>

\* player.hpp:175-181: the publishers are cleared, the reader is closed
PlayerStop_Close ==
    /\ ctl = "pstop_close"
    /\ m_publishers' = {}
    /\ reader_open' = IF reader_open = "null" THEN "null" ELSE "closed"
    /\ ctl' = "idle"
    /\ UNCHANGED <<player_state, player_running, m_playedMessages,
                   play_pc, play_it, published, loop_playback, input_path>>
    /\ UNCHANGED <<paceVars, notPlayer>>

\* player.hpp:89-97: Start returns true while PLAYING and false without an
\* input file; the call is made visible as a position of the controller
\* thread
PlayerStart_EarlyReturn ==
    /\ ctl = "idle"
    /\ IF player_state = "PLAYING"
          THEN ctl' = "pstart_true"
          ELSE input_path = "" /\ ctl' = "pstart_false"
    /\ UNCHANGED playVars
    /\ UNCHANGED notPlayer

\* player.hpp:158-161: Stop on a STOPPED player returns at once; the call is
\* made visible as a position of the controller thread
PlayerStop_EarlyReturn ==
    /\ ctl = "idle"
    /\ ~PlayerStopApplies(player_state)
    /\ ctl' = "pstop_void"
    /\ UNCHANGED playVars
    /\ UNCHANGED notPlayer

\* player.hpp:189-192: Pause reads the state and goes on when it is PLAYING
PlayerPause_Check ==
    /\ ctl = "idle"
    /\ player_state = "PLAYING"
    /\ ctl' = "ppause_store"
    /\ UNCHANGED playVars
    /\ UNCHANGED notPlayer

\* player.hpp:194: Pause stores PAUSED, whatever the state has become since
\* it was read
PlayerPause_Store ==
    /\ ctl = "ppause_store"
    /\ player_state' = "PAUSED"
    /\ ctl' = "idle"
    /\ UNCHANGED <<player_running, m_playedMessages, m_publishers, reader_open,
                   play_pc, play_it, published, loop_playback, input_path>>
    /\ UNCHANGED <<paceVars, notPlayer>>

PlayerPause == PlayerPause_Check \/ PlayerPause_Store

\* player.hpp:243-246: a rate that is not positive is replaced by 1.0
ClampedRate(rate) == IF rate <= 0 THEN 1 ELSE rate

\* player.hpp:241-248: SetPlaybackRate, called by the controller thread at any
\* time
SetPlaybackRate ==
    /\ ctl = "idle"
    /\ \E rate \in Rates : playback_rate' = ClampedRate(rate) /\ requested_rate' = rate
    /\ UNCHANGED <<player_state, player_running, m_playedMessages, m_publishers, reader_open,
                   play_pc, play_it, published, loop_playback, input_path, ctl>>
    /\ UNCHANGED <<lastTimestamp, firstMessage, slept, notPlayer>>

\* player.hpp:202-205: Resume reads the state and goes on when it is PAUSED
PlayerResume_Check ==
    /\ ctl = "idle"
    /\ player_state = "PAUSED"
    /\ ctl' = "presume_store"
    /\ UNCHANGED playVars
    /\ UNCHANGED notPlayer

\* player.hpp:207-208: Resume stores PLAYING, whatever the state has become
\* since it was read, and notifies the condition variable
PlayerResume_Store ==
    /\ ctl = "presume_store"
    /\ player_state' = "PLAYING"
    /\ play_pc' = NotifyAll(play_pc)
    /\ ctl' = "idle"
    /\ UNCHANGED <<player_running, m_playedMessages, m_publishers, reader_open,
                   play_it, published, loop_playback, input_path>>
    /\ UNCHANGED <<paceVars, notPlayer>>

PlayerResume == PlayerResume_Check \/ PlayerResume_Store

\* a step of the playback thread that moves it to position next and changes
\* nothing else
PlayGoto(next) ==
    /\ play_pc' = next
    /\ UNCHANGED <<player_state, player_running, m_playedMessages, m_publishers,
                   reader_open, play_it, published, loop_playback, input_path, ctl>>
    /\ UNCHANGED <<paceVars, notPlayer>>

\* player.hpp:263-276: PlayLoop is entered, the message view begins
PlayLoop_Begin ==
    /\ play_pc = "begin"
    /\ ctl # "terminated"
    /\ play_pc' = "test"
    /\ play_it' = 1
    /\ lastTimestamp' = 0
    /\ firstMessage' = TRUE
    /\ UNCHANGED <<player_state, player_running, m_playedMessages, m_publishers,
                   reader_open, published, loop_playback, input_path, ctl>>
    /\ UNCHANGED <<playback_rate, slept, requested_rate, notPlayer>>

\* player.hpp:279: it != end && m_running
PlayLoop_Test ==
    /\ play_pc = "test"
    /\ ctl # "terminated"
    /\ PlayGoto(IF play_it <= Len(PlayFile) /\ player_running THEN "check" ELSE "end")

\* player.hpp:282: the state is read
PlayLoop_CheckPause ==
    /\ play_pc = "check"
    /\ ctl # "terminated"
    /\ PlayGoto(IF player_state = "PAUSED" THEN "pause_eval" ELSE "delay")

\* player.hpp:288: the predicate of the wait is evaluated
PlayLoop_Predicate ==
    /\ play_pc = "pause_eval"
    /\ ctl # "terminated"
    /\ PlayGoto(IF player_state # "PAUSED" \/ ~player_running
                   THEN "after_wait" ELSE "pause_false")

\* player.hpp:288: the predicate was false; the thread blocks.  A notify_all
\* issued between the evaluation and this step finds no waiter.
PlayLoop_Block ==
    /\ play_pc = "pause_false"
    /\ ctl # "terminated"
    /\ PlayGoto("pause_blocked")

\* a condition variable may wake its waiter without a notification
PlayLoop_SpuriousWake ==
    /\ play_pc = "pause_blocked"
    /\ ctl # "terminated"
    /\ PlayGoto("pause_eval")

\* player.hpp:290-298: after the wait
PlayLoop_AfterWait ==
    /\ play_pc = "after_wait"
    /\ ctl # "terminated"
    /\ PlayGoto(IF ~player_running THEN "end" ELSE "delay")

\* player.hpp:316: static_cast<int64_t>(deltaTime / 1000000.0 / rate) for a
\* positive deltaTime and a positive rate
DelayMs(deltaTime, rate) == deltaTime \div (NsPerMs * rate)

\* player.hpp:311-314: sleep_for is called for a record that is not the first
\* of the pass, at a positive rate, with a log time after lastTimestamp
Sleeps(first, rate, deltaTime) == ~first /\ rate > 0 /\ deltaTime > 0

\* player.hpp:301-321: a record that is not protobuf-encoded is skipped;
\* otherwise the inter-record delay is slept, and firstMessage and
\* lastTimestamp are updated, before the topic of the record is looked up.
\* m_config.playback_rate is read without synchronisation (:311, :316); both
\* reads see a positive rate once the first did, so the delay is computed
\* from the rate before or after a concurrent SetPlaybackRate, which is the
\* interleaving of this step with that action.
PlayLoop_Delay ==
    /\ play_pc = "delay"
    /\ ctl # "terminated"
    /\ IF PlayFile[play_it].protobuf
          THEN /\ play_pc' = "publish"
               /\ slept' = IF Sleeps(firstMessage, playback_rate,
                                     PlayFile[play_it].logTime - lastTimestamp)
                              THEN Append(slept,
                                          [it |-> play_it,
                                           ms |-> DelayMs(PlayFile[play_it].logTime - lastTimestamp,
                                                          playback_rate)])
                              ELSE slept
               /\ firstMessage' = FALSE
               /\ lastTimestamp' = PlayFile[play_it].logTime
               /\ UNCHANGED play_it
          ELSE /\ play_pc' = "test"
               /\ play_it' = play_it + 1
               /\ UNCHANGED <<slept, firstMessage, lastTimestamp>>
    /\ UNCHANGED <<player_state, player_running, m_playedMessages, m_publishers,
                   reader_open, published, loop_playback, input_path, ctl>>
    /\ UNCHANGED <<playback_rate, requested_rate, notPlayer>>

\* a record is published under its channel's topic without a look at the
\* publishers
Publishable_NoLookup(record, publishers) == record.topic # ""

\* player.hpp:333-340: the record has a channel topic and that topic has a
\* publisher
Publishable(record, publishers) == record.topic # "" /\ record.topic \in publishers

\* player.hpp:344-347: Publish is called, its result is dropped and the
\* record is counted
Counted(played, ok) == played + 1

\* player.hpp:323-348: a record without a channel topic or without a
\* publisher is skipped; otherwise it is handed to Publish, whose result ok
\* the bus decides, and counted; the iterator advances
PlayLoop_Publish ==
    /\ play_pc = "publish"
    /\ ctl # "terminated"
    /\ Len(published) < MaxPublish
    /\ IF Publishable(PlayFile[play_it], m_publishers)
          THEN \E ok \in BOOLEAN :
                  /\ published' = Append(published,
                                         [topic |-> PlayFile[play_it].topic,
                                          data |-> PlayFile[play_it].data,
                                          ok |-> ok])
                  /\ m_playedMessages' = Counted(m_playedMessages, ok)
          ELSE UNCHANGED <<published, m_playedMessages>>
    /\ play_it' = play_it + 1
    /\ play_pc' = "test"
    /\ UNCHANGED <<player_state, player_running, m_publishers, reader_open,
                   loop_playback, input_path, ctl>>
    /\ UNCHANGED <<paceVars, notPlayer>>

\* player.hpp:352-362: the end of a pass: another pass, or STOPPED and return
PlayLoop_End ==
    /\ play_pc = "end"
    /\ ctl # "terminated"
    /\ IF player_running /\ loop_playback
          THEN /\ m_playedMessages' = 0
               /\ play_pc' = "begin"
               /\ UNCHANGED player_state
          ELSE /\ player_state' = "STOPPED"
               /\ play_pc' = "done"
               /\ UNCHANGED m_playedMessages
    /\ UNCHANGED <<player_running, m_publishers, reader_open, play_it, published,
                   loop_playback, input_path, ctl>>
    /\ UNCHANGED <<paceVars, notPlayer>>

PlayLoopSteps ==
    \/ PlayLoop_Begin \/ PlayLoop_Test \/ PlayLoop_CheckPause \/ PlayLoop_Predicate
    \/ PlayLoop_Block \/ PlayLoop_SpuriousWake \/ PlayLoop_AfterWait
    \/ PlayLoop_Delay \/ PlayLoop_Publish \/ PlayLoop_End

PlayerStopSteps ==
    \/ PlayerStop_Enter \/ PlayerStop_Signal \/ PlayerStop_Join \/ PlayerStop_Close

\* Player::Player (player.hpp:58-70)
PlayerConstructed ==
    /\ player_state = "STOPPED"
    /\ player_running = FALSE
    /\ m_playedMessages = 0
    /\ m_publishers = {}
    /\ reader_open = "null"
    /\ play_pc = "none"
    /\ play_it = 0
    /\ published = <<>>
    /\ lastTimestamp = 0
    /\ firstMessage = TRUE
    /\ slept = <<>>

\* a player configured as PlayerConfig() leaves it (config.hpp:75): no input
\* file, no loop, rate 1.0
PlayerInit ==
    /\ PlayerConstructed /\ loop_playback = FALSE /\ input_path = ""
    /\ playback_rate = 1 /\ requested_rate = 1

\* ---------------------------------------------------------------- Recorder
MaxRuns == 2             \* calls of Start that open the storage in one behaviour
write_batch_size == 2    \* StorageConfig.write_batch_size chosen for the model
MaxDeliver == 2          \* callbacks the bus delivers in one behaviour

\* outcomes of the file operations of the writer thread
RecorderIo == BOOLEAN

\* m_config.topics, in configuration order
ConfigTopics == <<"a", "b">>

\* the history of a run starts empty
NewRun ==
    /\ acked' = <<>>
    /\ popped' = <<>>
    /\ handed' = <<>>
    /\ queueAtStop' = <<>>

\* recorder.hpp:89-111: Start up to the opening of the storage.  Called
\* while RUNNING it returns true at once, with an empty topic list it returns
\* false at once; from PAUSED the storage is still open, Open refuses and
\* Start returns false.
Start_Open ==
    /\ ctl = "idle"
    /\ nRuns < MaxRuns
    /\ m_state # "RUNNING"
    /\ m_config_topics # <<>>
    /\ \E now \in Now, openOk \in BOOLEAN :
          /\ Open(now, openOk)
          /\ IF OpenSucceeds(openOk)
                THEN /\ ctl' = "start_clear"
                     /\ nRuns' = nRuns + 1
                     /\ startTotal' = recorder_totalMessages
                ELSE UNCHANGED <<ctl, nRuns, startTotal>>
    /\ UNCHANGED <<bufVars, pc, prodVars, consVars, histVars, callVars,
                   m_state, recorder_running, recorder_totalMessages, m_subscribers,
                   ctl_i, queueAtStop>>
    /\ UNCHANGED notRecorder

\* recorder.hpp:113: m_buffer->Clear()
Start_Clear ==
    /\ ctl = "start_clear"
    /\ Clear
    /\ NewRun
    /\ ctl' = "start_run"
    /\ UNCHANGED <<buffer_running, buffer_totalMessages, m_mutex, m_maxQueueSize, pc,
                   prodVars, consVars,
                   nPush, stoVars, st_pc, st_msgs, st_all, st_ret,
                   m_state, recorder_running, recorder_totalMessages, m_subscribers,
                   ctl_i, nRuns, startTotal>>
    /\ UNCHANGED notRecorder

\* recorder.hpp:114-120: the counter is reset, the state becomes RUNNING, the
\* subscribers of an earlier run are dropped
Start_Run ==
    /\ ctl = "start_run"
    /\ recorder_totalMessages' = 0
    /\ m_state' = "RUNNING"
    /\ m_subscribers' = {}
    /\ ctl' = "start_buffer"
    /\ UNCHANGED <<bufVars, pc, prodVars, consVars, histVars, stoVars, callVars,
                   recorder_running, ctl_i, nRuns, startTotal, queueAtStop>>
    /\ UNCHANGED notRecorder

\* recorder.hpp:122: m_buffer->Start()
Start_Buffer ==
    /\ ctl = "start_buffer"
    /\ BufferStart
    /\ ctl' = "start_reg"
    /\ ctl_i' = 1
    /\ UNCHANGED <<m_messageQueue, m_topicQueues, buffer_totalMessages, m_mutex, m_maxQueueSize, pc,
                   prodVars, consVars, histVars, stoVars, callVars,
                   m_state, recorder_running, recorder_totalMessages, m_subscribers,
                   nRuns, startTotal, queueAtStop>>
    /\ UNCHANGED notRecorder

\* recorder.hpp:125-145: one pass of the loop over the topics: the topic is
\* registered and its subscriber created, or the registration fails and
\* Start unwinds (:131-136) and returns false
Start_Register ==
    /\ ctl = "start_reg"
    /\ ctl_i <= Len(m_config_topics)
    /\ \E found \in BOOLEAN :
          /\ RegisterTopic(m_config_topics[ctl_i], found)
          /\ IF found
                THEN /\ m_subscribers' = m_subscribers \cup {m_config_topics[ctl_i]}
                     /\ ctl_i' = ctl_i + 1
                     /\ UNCHANGED <<ctl, m_state, recorder_running, buffer_running>>
                ELSE /\ recorder_running' = FALSE
                     /\ m_state' = "STOPPED"
                     /\ BufferStop
                     /\ ctl' = "start_unwind"
                     /\ UNCHANGED <<m_subscribers, ctl_i>>
    /\ UNCHANGED <<m_messageQueue, m_topicQueues, buffer_totalMessages, m_mutex, m_maxQueueSize, pc,
                   prodVars, consVars, histVars, callVars,
                   recorder_totalMessages, nRuns, startTotal, queueAtStop>>
    /\ UNCHANGED notRecorder

\* recorder.hpp:134-136: the failed Start closes the storage and returns false
Start_Unwind ==
    /\ ctl = "start_unwind"
    /\ Close
    /\ ctl' = "idle"
    /\ ctl_i' = 0
    /\ startTotal' = 0
    /\ UNCHANGED <<bufVars, pc, prodVars, consVars, histVars, callVars,
                   m_state, recorder_running, recorder_totalMessages, m_subscribers,
                   nRuns, queueAtStop>>
    /\ UNCHANGED notRecorder

\* recorder.hpp:148-151: the writer thread is spawned, Start returns true
Start_Spawn ==
    /\ ctl = "start_reg"
    /\ ctl_i > Len(m_config_topics)
    /\ recorder_running' = TRUE
    /\ pc' = [pc EXCEPT ![Consumer] = "w_test"]
    /\ ctl' = "idle"
    /\ ctl_i' = 0
    /\ startTotal' = 0
    /\ UNCHANGED <<bufVars, prodVars, consVars, histVars, stoVars, callVars,
                   m_state, recorder_totalMessages, m_subscribers, nRuns, queueAtStop>>
    /\ UNCHANGED notRecorder

\* recorder.hpp:175-183: Stop on a recorder that is not STOPPED stores STOPPED
Stop_Enter ==
    /\ ctl = "idle"
    /\ m_state # "STOPPED"
    /\ m_state' = "STOPPED"
    /\ queueAtStop' = m_messageQueue
    /\ ctl' = "stop_subs"
    /\ UNCHANGED <<bufVars, pc, prodVars, consVars, histVars, stoVars, callVars,
                   recorder_running, recorder_totalMessages, m_subscribers, ctl_i, nRuns, startTotal>>
    /\ UNCHANGED notRecorder

\* recorder.hpp:189: m_subscribers.clear()
Stop_Subscribers ==
    /\ ctl = "stop_subs"
    /\ m_subscribers' = {}
    /\ ctl' = "stop_signal"
    /\ UNCHANGED <<bufVars, pc, prodVars, consVars, histVars, stoVars, callVars,
                   m_state, recorder_running, recorder_totalMessages, ctl_i, nRuns, startTotal,
                   queueAtStop>>
    /\ UNCHANGED notRecorder

\* recorder.hpp:211: m_running = false
Stop_Signal ==
    /\ ctl = "stop_signal"
    /\ recorder_running' = FALSE
    /\ ctl' = "stop_join"
    /\ UNCHANGED <<bufVars, pc, prodVars, consVars, histVars, stoVars, callVars,
                   m_state, recorder_totalMessages, m_subscribers, ctl_i, nRuns, startTotal,
                   queueAtStop>>
    /\ UNCHANGED notRecorder

\* recorder.hpp:214-225: m_writeThread.join() returns once WriteLoop has left
Stop_Join ==
    /\ ctl = "stop_join"
    /\ pc[Consumer] = "w_done"
    /\ pc' = [pc EXCEPT ![Consumer] = "idle"]
    /\ ctl' = "stop_buffer"
    /\ UNCHANGED <<bufVars, prodVars, consVars, histVars, stoVars, callVars,
                   m_state, recorder_running, recorder_totalMessages, m_subscribers,
                   ctl_i, nRuns, startTotal, queueAtStop>>
    /\ UNCHANGED notRecorder

\* recorder.hpp:231-234: m_buffer->Stop()
Stop_Buffer ==
    /\ ctl = "stop_buffer"
    /\ BufferStop
    /\ ctl' = "stop_close"
    /\ UNCHANGED <<m_messageQueue, m_topicQueues, buffer_totalMessages, m_mutex, m_maxQueueSize, pc,
                   prodVars, consVars, histVars, stoVars, callVars,
                   m_state, recorder_running, recorder_totalMessages, m_subscribers,
                   ctl_i, nRuns, startTotal, queueAtStop>>
    /\ UNCHANGED notRecorder

\* recorder.hpp:244-253: m_storage->Close(); Stop returns
Stop_Close ==
    /\ ctl = "stop_close"
    /\ Close
    /\ ctl' = "idle"
    /\ UNCHANGED <<bufVars, pc, prodVars, consVars, histVars, callVars,
                   m_state, recorder_running, recorder_totalMessages, m_subscribers,
                   ctl_i, nRuns, startTotal, queueAtStop>>
    /\ UNCHANGED notRecorder

\* a Pause that takes effect in every state
PauseApplies_Always(state) == TRUE

\* recorder.hpp:268-271: Pause goes on only when RUNNING
PauseApplies(state) == state = "RUNNING"

\* recorder.hpp:281-284: Resume goes on only when PAUSED
ResumeApplies(state) == state = "PAUSED"

\* recorder.hpp:266-274
Pause ==
    /\ ctl = "idle"
    /\ PauseApplies(m_state)
    /\ m_state' = "PAUSED"
    /\ UNCHANGED <<bufVars, pc, prodVars, consVars, histVars, stoVars, callVars,
                   recorder_running, recorder_totalMessages, m_subscribers,
                   ctl, ctl_i, nRuns, startTotal, queueAtStop>>
    /\ UNCHANGED notRecorder

\* recorder.hpp:279-287
Resume ==
    /\ ctl = "idle"
    /\ ResumeApplies(m_state)
    /\ m_state' = "RUNNING"
    /\ UNCHANGED <<bufVars, pc, prodVars, consVars, histVars, stoVars, callVars,
                   recorder_running, recorder_totalMessages, m_subscribers,
                   ctl, ctl_i, nRuns, startTotal, queueAtStop>>
    /\ UNCHANGED notRecorder

\* a callback that drops messages only when STOPPED
Recording_NotStopped(state) == state # "STOPPED"

\* recorder.hpp:330: the callback goes on only when RUNNING
Recording(state) == state = "RUNNING"

\* recorder.hpp:328-336: a subscriber of topic t delivers the n-th message on
\* thread p, the first free thread of the bus (the threads are alike); the
\* callback reads m_state and, when RUNNING, the clock
OnMessageReceived_Enter(p) ==
    /\ pc[p] = "idle"
    /\ \A q \in Producers : q < p => pc[q] # "idle"
    /\ nPush < MaxDeliver
    /\ nPush' = nPush + 1
    /\ \E t \in m_subscribers :
          IF ~Recording(m_state)
             THEN UNCHANGED <<pc, parg>>
             ELSE /\ pc' = [pc EXCEPT ![p] = "cb_push"]
                  /\ parg' = [parg EXCEPT ![p] =
                        [topic |-> t, data |-> nPush + 1, timestamp |-> nPush + 1]]
    /\ UNCHANGED <<bufVars, ret, consVars, acked, popped, stoVars, callVars, recVars>>
    /\ UNCHANGED notRecorder

\* recorder.hpp:339: m_buffer->PushMessage(topic, message, timestamp)
OnMessageReceived_Push(p) ==
    /\ pc[p] = "cb_push"
    /\ PushMessage_Enter(p, parg[p])
    /\ UNCHANGED <<m_maxQueueSize, consVars, nPush, popped, stoVars, callVars, recVars>>
    /\ UNCHANGED notRecorder

\* recorder.hpp:339-344: PushMessage has returned; an acknowledged push is
\* counted
OnMessageReceived_Return(p) ==
    /\ pc[p] = "push_ret"
    /\ recorder_totalMessages' = IF ret[p] THEN recorder_totalMessages + 1
                                 ELSE recorder_totalMessages
    /\ ret' = [ret EXCEPT ![p] = FALSE]
    /\ pc' = [pc EXCEPT ![p] = "idle"]
    /\ UNCHANGED <<bufVars, parg, consVars, histVars, stoVars, callVars,
                   m_state, recorder_running, m_subscribers, ctl, ctl_i, nRuns, startTotal, queueAtStop>>
    /\ UNCHANGED notRecorder

\* a writer thread that takes a paused recorder for one that is stopping
WriterRunning_Unpaused == recorder_running /\ m_state # "PAUSED"

\* recorder.hpp:369: the first operand of the loop test
WriterRunning == recorder_running

\* recorder.hpp:369: the loop test reads m_running
WriteLoop_Test ==
    /\ pc[Consumer] = "w_test"
    /\ pc' = [pc EXCEPT ![Consumer] = IF WriterRunning THEN "w_batch" ELSE "w_size"]
    /\ UNCHANGED <<bufVars, prodVars, consVars, histVars, stoVars, callVars, recVars>>
    /\ UNCHANGED notRecorder

\* a loop test that looks at m_running alone
LoopExits_Always(n) == TRUE

\* should WriteLoop leave its loop: m_running was read false, n is Size()
LoopExits(n) == ~(n > 0)

\* recorder.hpp:369: m_running was false, the loop goes on iff Size() > 0
WriteLoop_Size ==
    /\ pc[Consumer] = "w_size"
    /\ m_mutex = NoThread
    /\ pc' = [pc EXCEPT ![Consumer] =
                 IF LoopExits(Len(m_messageQueue)) THEN "w_done" ELSE "w_batch"]
    /\ UNCHANGED <<bufVars, prodVars, consVars, histVars, stoVars, callVars, recVars>>
    /\ UNCHANGED notRecorder

\* recorder.hpp:372-377: batch.clear(); the batch size; PopMessages is called
WriteLoop_Batch ==
    /\ pc[Consumer] = "w_batch"
    /\ recorder_running \/ m_mutex = NoThread
    /\ batch' = <<>>
    /\ batchSize' = IF recorder_running THEN write_batch_size ELSE Len(m_messageQueue)
    /\ pc' = [pc EXCEPT ![Consumer] = "pop_enter"]
    /\ UNCHANGED <<bufVars, prodVars, popTopic, popRet, histVars, stoVars, callVars, recVars>>
    /\ UNCHANGED notRecorder

\* recorder.hpp:377-398: PopMessages has returned: a batch is written, and
\* without one the loop starts over (after a 10 ms sleep while running).
\* The batch now belongs to the call; batchSize goes out of scope.
WriteLoop_Write ==
    /\ pc[Consumer] = "pop_ret"
    /\ IF popRet
          THEN /\ WriteMessageBatch_Enter(batch)
               /\ pc' = [pc EXCEPT ![Consumer] = "w_write"]
          ELSE /\ pc' = [pc EXCEPT ![Consumer] = "w_test"]
               /\ UNCHANGED <<stoVars, callVars>>
    /\ batch' = <<>>
    /\ batchSize' = 0
    /\ popRet' = FALSE
    /\ UNCHANGED <<bufVars, prodVars, popTopic, histVars, recVars>>
    /\ UNCHANGED notRecorder

\* recorder.hpp:382-393: WriteMessageBatch has returned or thrown; the result
\* is logged only
WriteLoop_Written ==
    /\ pc[Consumer] = "w_write"
    /\ st_pc = "done"
    /\ st_pc' = "idle"
    /\ st_ret' = "none"
    /\ st_all' = TRUE
    /\ pc' = [pc EXCEPT ![Consumer] = "w_test"]
    /\ UNCHANGED <<bufVars, prodVars, consVars, histVars, stoVars,
                   st_msgs, handed, recVars>>
    /\ UNCHANGED notRecorder

\* The calls that return before they change anything are steps that leave
\* every variable alone.  The actions below make such a call visible as a
\* position of the controller thread, so that what it leaves alone can be
\* stated: "start_true" and "start_false" name the value Start returns.

\* recorder.hpp:91-111: Start returns true while RUNNING (:91-94), false with
\* an empty topic list (:96-99) and false when Storage::Open refuses because a
\* file is open (:108-111, storage.hpp:96-99)
Start_EarlyReturn ==
    /\ ctl = "idle"
    /\ IF m_state = "RUNNING"
          THEN ctl' = "start_true"
          ELSE IF m_config_topics = <<>>
                  THEN ctl' = "start_false"
                  ELSE /\ m_fileInfo.is_open
                       /\ ctl' = "start_false"
    /\ UNCHANGED <<bufVars, pc, prodVars, consVars, histVars, stoVars, callVars,
                   m_state, recorder_running, recorder_totalMessages, m_subscribers,
                   ctl_i, nRuns, startTotal, queueAtStop>>
    /\ UNCHANGED notRecorder

\* recorder.hpp:175-178: Stop on a STOPPED recorder returns at once
Stop_EarlyReturn ==
    /\ ctl = "idle"
    /\ m_state = "STOPPED"
    /\ ctl' = "stop_void"
    /\ UNCHANGED <<bufVars, pc, prodVars, consVars, histVars, stoVars, callVars,
                   m_state, recorder_running, recorder_totalMessages, m_subscribers,
                   ctl_i, nRuns, startTotal, queueAtStop>>
    /\ UNCHANGED notRecorder

\* recorder.hpp:268-271: Pause in a state other than RUNNING returns at once
Pause_EarlyReturn ==
    /\ ctl = "idle"
    /\ ~PauseApplies(m_state)
    /\ ctl' = "pause_void"
    /\ UNCHANGED <<bufVars, pc, prodVars, consVars, histVars, stoVars, callVars,
                   m_state, recorder_running, recorder_totalMessages, m_subscribers,
                   ctl_i, nRuns, startTotal, queueAtStop>>
    /\ UNCHANGED notRecorder

\* recorder.hpp:281-284: Resume in a state other than PAUSED returns at once
Resume_EarlyReturn ==
    /\ ctl = "idle"
    /\ ~ResumeApplies(m_state)
    /\ ctl' = "resume_void"
    /\ UNCHANGED <<bufVars, pc, prodVars, consVars, histVars, stoVars, callVars,
                   m_state, recorder_running, recorder_totalMessages, m_subscribers,
                   ctl_i, nRuns, startTotal, queueAtStop>>
    /\ UNCHANGED notRecorder

\* the positions of a call that has returned early
EarlyReturns ==
    {"start_true", "start_false", "stop_void", "pause_void", "resume_void",
     "pstart_true", "pstart_false", "pstop_void"}

\* the controller thread is back in its own code
Returned ==
    /\ ctl \in EarlyReturns
    /\ ctl' = "idle"
    /\ UNCHANGED <<bufVars, pc, prodVars, consVars, histVars, stoVars, callVars,
                   m_state, recorder_running, recorder_totalMessages, m_subscribers,
                   ctl_i, nRuns, startTotal, queueAtStop>>
    /\ UNCHANGED notRecorder

RecorderInit ==
    /\ m_state = "STOPPED"
    /\ recorder_running = FALSE
    /\ recorder_totalMessages = 0
    /\ m_subscribers = {}
    /\ ctl = "idle"
    /\ ctl_i = 0
    /\ nRuns = 0
    /\ startTotal = 0
    /\ queueAtStop = <<>>

\* the recorder is configured with the topics of ConfigTopics
ConfigInit == m_config_topics = ConfigTopics

InitRec ==
    BufferInit /\ ThreadInit /\ StorageInit /\ RecorderInit /\ ConfigInit /\ PlayerInit

StartSteps ==
    \/ Start_Open \/ Start_Clear \/ Start_Run \/ Start_Buffer
    \/ Start_Register \/ Start_Unwind \/ Start_Spawn

StopSteps ==
    \/ Stop_Enter \/ Stop_Subscribers \/ Stop_Signal \/ Stop_Join
    \/ Stop_Buffer \/ Stop_Close

WriterSteps ==
    \/ WriteLoop_Test \/ WriteLoop_Size \/ WriteLoop_Batch
    \/ PopSteps
    \/ WriteLoop_Write \/ Storage_WriteNext(RecorderIo) \/ Storage_SplitAndReturn(RecorderIo)
    \/ WriteLoop_Written

CallbackSteps(p) ==
    \/ OnMessageReceived_Enter(p) \/ OnMessageReceived_Push(p)
    \/ PushSteps(p) \/ OnMessageReceived_Return(p)

NextRec ==
    \/ StartSteps \/ StopSteps \/ Pause \/ Resume
    \/ WriterSteps
    \/ \E p \in Producers : CallbackSteps(p)

SpecRec == InitRec /\ [][NextRec]_vars

\* the recorder whose producers have stopped when Stop is called: no callback
\* is between its read of m_state and the return of its PushMessage
Stop_Quiescent ==
    /\ \A p \in Producers : pc[p] = "idle"
    /\ Stop_Enter

StopRest ==
    \/ Stop_Subscribers \/ Stop_Signal \/ Stop_Join \/ Stop_Buffer \/ Stop_Close

NextDrain ==
    \/ StartSteps \/ Stop_Quiescent \/ StopRest \/ Pause \/ Resume
    \/ WriterSteps
    \/ \E p \in Producers : CallbackSteps(p)

\* the threads are scheduled fairly: the writer thread, the thread inside
\* Stop and a thread inside PushMessage each take their next step
SpecDrain ==
    /\ InitRec
    /\ [][NextDrain]_vars
    /\ WF_vars(WriterSteps)
    /\ WF_vars(StopRest)
    /\ \A p \in Producers : WF_vars(PushSteps(p))

\* ------------------------------------- the recorder and its lifecycle calls
\* the recorder is configured with any topic list
InitLife ==
    /\ BufferInit /\ ThreadInit /\ StorageInit /\ RecorderInit /\ PlayerInit
    /\ m_config_topics \in {<<>>, ConfigTopics}

\* the lifecycle calls that return early
EarlySteps ==
    \/ Start_EarlyReturn \/ Stop_EarlyReturn \/ Pause_EarlyReturn \/ Resume_EarlyReturn
    \/ Returned

\* the writer thread whose file operations succeed
WriterStepsOk ==
    \/ WriteLoop_Test \/ WriteLoop_Size \/ WriteLoop_Batch
    \/ PopSteps
    \/ WriteLoop_Write \/ Storage_WriteNext({TRUE}) \/ Storage_SplitAndReturn({TRUE})
    \/ WriteLoop_Written

NextLife ==
    \/ StartSteps \/ StopSteps \/ Pause \/ Resume
    \/ EarlySteps
    \/ WriterStepsOk
    \/ \E p \in Producers : CallbackSteps(p)

SpecLife == InitLife /\ [][NextLife]_vars

\* -------------------------------------------------- the player on its own
InitPlay ==
    /\ BufferInit /\ ThreadInit /\ StorageInit /\ RecorderInit /\ ConfigInit
    /\ PlayerConstructed
    /\ loop_playback \in BOOLEAN
    /\ input_path = "bag"
    /\ playback_rate = 1
    /\ requested_rate = 1

NextPlay ==
    \/ PlayerStart \/ PlayerStopSteps \/ PlayerPause \/ PlayerResume
    \/ PlayerStart_EarlyReturn \/ PlayerStop_EarlyReturn \/ Returned
    \/ PlayLoopSteps

SpecPlay == InitPlay /\ [][NextPlay]_vars

\* ------------------------------------------------ one replay, never stopped
\* Start is called on the constructed player, then only Pause and Resume
FirstStart == player_state = "STOPPED" /\ ~Joinable /\ PlayerStart

NextPass ==
    \/ FirstStart \/ PlayerPause \/ PlayerResume
    \/ PlayerStart_EarlyReturn \/ Returned
    \/ PlayLoopSteps

SpecPass == InitPlay /\ [][NextPass]_vars

\* ------------------------------------------- one replay at a changing rate
\* the configuration gives any rate (config.hpp:170-173 stores the value of
\* the file as it is); SetPlaybackRate is called at any time
InitRate ==
    /\ BufferInit /\ ThreadInit /\ StorageInit /\ RecorderInit /\ ConfigInit
    /\ PlayerConstructed
    /\ loop_playback \in BOOLEAN
    /\ input_path = "bag"
    /\ playback_rate \in Rates
    /\ requested_rate = playback_rate

NextRate ==
    \/ FirstStart \/ PlayerPause \/ PlayerResume \/ SetPlaybackRate
    \/ PlayLoopSteps

SpecRate == InitRate /\ [][NextRate]_vars

\* ------------------------------------- a process with a recorder and a player
\* One of the two objects is configured, the other is as its default
\* configuration leaves it: a recorder without topics, whose Start returns
\* false (recorder.hpp:96-99), or a player without an input file, whose
\* Start returns false (player.hpp:94-97).
InitStop ==
    /\ BufferInit /\ ThreadInit /\ StorageInit /\ RecorderInit
    /\ PlayerConstructed
    /\ \/ m_config_topics = ConfigTopics /\ input_path = "" /\ loop_playback = FALSE
       \/ m_config_topics = <<>> /\ input_path = "bag" /\ loop_playback \in BOOLEAN
    /\ playback_rate = 1
    /\ requested_rate = 1

NextStop == NextLife \/ NextPlay

SpecStop == InitStop /\ [][NextStop]_vars

\* ------------------------------------------------ the storage on its own
\* what the code of Storage never touches
notStorage == <<bufVars, pc, prodVars, consVars, acked, popped, recVars, notRecorder>>

\* the n-th record a client of Storage builds itself
ClientMessage(t, n) ==
    [topic |-> t, data |-> n, timestamp |-> n, sequence_number |-> n - 1]

\* a client thread that is not inside a write call calls Open
StoreOpen ==
    /\ st_pc \in {"idle", "done"}
    /\ nRuns < MaxRuns
    /\ \E now \in Now, openOk \in BOOLEAN :
          /\ Open(now, openOk)
          /\ nRuns' = IF OpenSucceeds(openOk) THEN nRuns + 1 ELSE nRuns
    /\ UNCHANGED <<callVars, nPush>>
    /\ UNCHANGED <<bufVars, pc, prodVars, consVars, acked, popped,
                   m_state, recorder_running, recorder_totalMessages, m_subscribers,
                   ctl, ctl_i, startTotal, queueAtStop>>
    /\ UNCHANGED notRecorder

\* ... calls Close
StoreClose ==
    /\ st_pc \in {"idle", "done"}
    /\ Close
    /\ UNCHANGED <<callVars, nPush>>
    /\ UNCHANGED notStorage

\* ... calls RegisterTopic, on a storage whose writer is open, for a topic
\* it has not registered since Open
StoreRegister ==
    /\ st_pc \in {"idle", "done"}
    /\ m_fileInfo.is_open
    /\ writer_open
    /\ \E t \in Topics \ DOMAIN m_topicInfos, found \in BOOLEAN : RegisterTopic(t, found)
    /\ UNCHANGED <<callVars, nPush>>
    /\ UNCHANGED notStorage

\* ... calls WriteMessage with a record of any topic
StoreWriteMessage ==
    /\ st_pc \in {"idle", "done"}
    /\ nPush < MaxPush
    /\ nPush' = nPush + 1
    /\ \E t \in Topics : WriteMessage_Enter(ClientMessage(t, nPush + 1))
    /\ UNCHANGED notStorage

\* ... calls WriteMessageBatch with two records of any topics
StoreWriteBatch ==
    /\ st_pc \in {"idle", "done"}
    /\ nPush + 2 <= MaxPush
    /\ nPush' = nPush + 2
    /\ \E t \in Topics, u \in Topics :
          WriteMessageBatch_Enter(<<ClientMessage(t, nPush + 1), ClientMessage(u, nPush + 2)>>)
    /\ UNCHANGED notStorage

InitStore ==
    BufferInit /\ ThreadInit /\ StorageInit /\ RecorderInit /\ ConfigInit /\ PlayerInit

NextStore ==
    \/ StoreOpen \/ StoreClose \/ StoreRegister
    \/ StoreWriteMessage \/ StoreWriteBatch
    \/ Storage_WriteNext(BOOLEAN) \/ Storage_SplitAndReturn(BOOLEAN)

SpecStore == InitStore /\ [][NextStore]_vars

\* --------------------------- the storage with a reader of the file size
\* a second thread calls GetFileSize once, at any time
NextSize == NextStore \/ GetFileSize

SpecSize == InitStore /\ [][NextSize]_vars

\* ----------------------------------- BuildFileDescriptorSet on every graph
\* the function is called once, with a null descriptor or with the
\* descriptor of a type of file 1, on any dependency graph of the files
InitFds ==
    /\ BufferInit /\ ThreadInit /\ StorageFileInit /\ RecorderInit /\ ConfigInit /\ PlayerInit
    /\ NoDescriptorCall
    /\ dependency \in [ProtoFiles -> UNION {ImportLists(f) : f \in ProtoFiles}]
    /\ \A f \in ProtoFiles : dependency[f] \in ImportLists(f)
    /\ toplevelDescriptor \in {NullDescriptor, 1}

NextFds ==
    \/ BuildFileDescriptorSet_Enter
    \/ BuildFileDescriptorSet_Loop
    \/ BuildFileDescriptorSet_Return

SpecFds == InitFds /\ [][NextFds]_vars

\* the calling thread goes on running until the function has returned
SpecFdsLive == SpecFds /\ WF_vars(NextFds)

\* ------------------------------------------------- the buffer on its own
InitBuf ==
    BufferInit /\ ThreadInit /\ StorageInit /\ RecorderInit /\ ConfigInit /\ PlayerInit

\* a client thread that is not inside a call calls PushMessage(t, data, ts);
\* the payload of the n-th call is n, so every call carries different bytes
ProducerCall(p) ==
    /\ pc[p] \in {"idle", "push_ret"}
    /\ nPush < MaxPush
    /\ nPush' = nPush + 1
    /\ \E t \in Topics :
          PushMessage_Enter(p, [topic |-> t, data |-> nPush + 1, timestamp |-> nPush + 1])
    /\ blockedAtStop' = blockedAtStop \ {p}
    /\ UNCHANGED <<consVars, popped>>
    /\ UNCHANGED notBufferClient

\* the consumer calls PopMessages(messages, k): the out-vector is either a
\* fresh one or the one its previous call filled
ConsumerCallPop ==
    /\ pc[Consumer] \in {"idle", "pop_ret"}
    /\ \E k \in 0..MaxBatch : batchSize' = k
    /\ \E b \in {<<>>, batch} : batch' = b
    /\ popTopic' = "a"
    /\ pc' = [pc EXCEPT ![Consumer] = "pop_enter"]
    /\ blockedAtStop' = blockedAtStop \ {Consumer}
    /\ UNCHANGED <<bufVars, prodVars, popRet, histVars>>
    /\ UNCHANGED notBufferClient

\* the consumer calls PopMessagesByTopic(t, k)
ConsumerCallPopByTopic ==
    /\ pc[Consumer] \in {"idle", "pop_ret"}
    /\ \E k \in 0..MaxBatch : batchSize' = k
    /\ \E t \in Topics : popTopic' = t
    /\ batch' = <<>>
    /\ popRet' = FALSE
    /\ pc' = [pc EXCEPT ![Consumer] = "popt_enter"]
    /\ blockedAtStop' = blockedAtStop \ {Consumer}
    /\ UNCHANGED <<bufVars, prodVars, histVars>>
    /\ UNCHANGED notBufferClient

\* the threads blocked in the wait of PushMessage on a full queue
\* (buffer.hpp:69) or in the wait of PopMessages on an empty one
\* (buffer.hpp:112)
Blocked ==
    {t \in Producers \cup {Consumer} :
        \/ pc[t] = "push_wait" /\ QueueFull(m_messageQueue)
        \/ pc[t] = "pop_wait" /\ m_messageQueue = <<>>}

CallClear ==
    /\ Clear
    /\ UNCHANGED <<buffer_running, buffer_totalMessages, m_mutex, pc, prodVars, consVars,
                   nPush, acked, popped>>
    /\ UNCHANGED notBuffer

CallStop ==
    /\ BufferStop
    /\ blockedAtStop' = blockedAtStop \cup Blocked
    /\ UNCHANGED <<m_messageQueue, m_topicQueues, buffer_totalMessages, m_mutex, pc,
                   prodVars, consVars, nPush, acked, popped>>
    /\ UNCHANGED notBufferClient

CallStart ==
    /\ BufferStart
    /\ UNCHANGED <<m_messageQueue, m_topicQueues, buffer_totalMessages, m_mutex, pc,
                   prodVars, consVars, nPush, acked, popped>>
    /\ UNCHANGED notBuffer

NextBuf ==
    \/ \E p \in Producers : ProducerCall(p) \/ PushSteps(p)
    \/ ConsumerCallPop \/ PopSteps
    \/ ConsumerCallPopByTopic \/ PopByTopicSteps
    \/ CallClear \/ CallStop \/ CallStart

SpecBuf == InitBuf /\ [][NextBuf]_vars


\* the buffer without Clear
NextBufNoClear ==
    \/ \E p \in Producers : ProducerCall(p) \/ PushSteps(p)
    \/ ConsumerCallPop \/ PopSteps
    \/ ConsumerCallPopByTopic \/ PopByTopicSteps
    \/ CallStop \/ CallStart

SpecBufNoClear == InitBuf /\ [][NextBufNoClear]_vars

\* a running buffer that is only pushed to and popped with PopMessages
NextBackpressure ==
    \/ \E p \in Producers : ProducerCall(p) \/ PushSteps(p)
    \/ ConsumerCallPop \/ PopSteps

SpecBackpressure == InitBuf /\ [][NextBackpressure]_vars

\* ------------------------------------------------------------ properties
\* the lengths of the deques f[k], k in S, added up
RECURSIVE SumLen(_, _)
SumLen(f, S) ==
    IF S = {} THEN 0
    ELSE LET k == CHOOSE x \in S : TRUE IN Len(f[k]) + SumLen(f, S \ {k})

\* number of positions of sequence q that hold m
Count(q, m) == Cardinality({i \in 1..Len(q) : q[i] = m})

\* sequence t starts sequence s
IsPrefix(t, s) ==
    /\ Len(t) <= Len(s)
    /\ t = SubSeq(s, 1, Len(t))

\* sequence s ends with sequence t
IsSuffix(t, s) ==
    /\ Len(t) <= Len(s)
    /\ t = SubSeq(s, Len(s) - Len(t) + 1, Len(s))

\* C3: the per-topic index is exactly the main queue split by topic: every
\* entry of m_topicQueues is non-empty and equals the records of its topic in
\* m_messageQueue, in queue order; a topic without an entry has no record in
\* the queue; the sizes add up; the head of the queue heads its sub-queue.
IndexConsistent ==
    /\ DOMAIN m_topicQueues \subseteq Topics
    /\ \A t \in DOMAIN m_topicQueues :
          /\ m_topicQueues[t] # <<>>
          /\ m_topicQueues[t] = OfTopic(m_messageQueue, t)
    /\ \A t \in Topics \ DOMAIN m_topicQueues : OfTopic(m_messageQueue, t) = <<>>
    /\ Len(m_messageQueue) = SumLen(m_topicQueues, DOMAIN m_topicQueues)
    /\ m_messageQueue # <<>> =>
          /\ Head(m_messageQueue).topic \in DOMAIN m_topicQueues
          /\ Head(m_topicQueues[Head(m_messageQueue).topic]) = Head(m_messageQueue)

\* C3 witness: PopMessagesByTopic has taken a record from behind the head of
\* the queue, and the queue still holds an older record of another topic
IndexConsistentWitness ==
    /\ pc[Consumer] = "pop_ret"
    /\ batch # <<>>
    /\ m_messageQueue # <<>>
    /\ batch[1].topic # Head(m_messageQueue).topic
    /\ batch[1].sequence_number > Head(m_messageQueue).sequence_number

\* C4 (as claimed): the main queue never holds more than buffer_size records
QueueBounded == Len(m_messageQueue) <= m_maxQueueSize

\* the step on which thread p's PushMessage returns from behind the lock
PushCompletes(p) ==
    /\ pc[p] \in {"push_lock", "push_wait", "push_recheck"}
    /\ pc'[p] = "push_ret"

\* before the first pop the queue is the history of acknowledged pushes
BackpressureState ==
    popped = <<>> =>
        /\ m_messageQueue = acked
        /\ Len(acked) <= m_maxQueueSize
        /\ buffer_totalMessages = Len(acked)

\* what a returning push and the first pop do before anything was popped
BackpressureStep ==
    popped = <<>> =>
        /\ \A p \in Producers : PushCompletes(p) =>
              IF Len(acked) < m_maxQueueSize
                 THEN /\ ret'[p]
                      /\ m_messageQueue' = Append(acked, NewMessage(parg[p], Len(acked)))
                 ELSE /\ ~ret'[p]
                      /\ pc[p] = "push_wait"
                      /\ UNCHANGED <<m_messageQueue, m_topicQueues, buffer_totalMessages>>
        /\ popped' # <<>> =>
              /\ popped' = SubSeq(acked, 1, Min(batchSize, Len(acked)))
              /\ batch' = batch \o popped'
              /\ popRet'

\* C5: on a running buffer that nobody has popped from yet, the queue is the
\* acknowledged pushes in push order and at most buffer_size long; a push that
\* completes is acknowledged iff the queue had room, and otherwise it was
\* blocked in the wait, times out, returns false and changes neither the queue,
\* the index nor the counter; the first pop that removes anything returns the
\* head of that history, all of it when max_batch_size allows.
Backpressure == [](BackpressureState) /\ [][BackpressureStep]_vars

\* C5 witness: the queue of capacity 2 is full, nothing was popped, a third
\* push has timed out, and PopMessages is called for all of it
BackpressureWitness ==
    /\ popped = <<>>
    /\ m_maxQueueSize = buffer_size
    /\ Len(m_messageQueue) = m_maxQueueSize
    /\ \E p \in Producers : pc[p] = "push_ret" /\ ~ret[p]
    /\ pc[Consumer] = "pop_enter"
    /\ batchSize >= m_maxQueueSize

\* every acknowledged record is in exactly one place
NoLossNoDupState ==
    \A i \in 1..Len(acked) :
        Count(m_messageQueue, acked[i]) + Count(popped, acked[i]) = 1

\* a PopMessages for at least one record that finds a record returns it,
\* whether the buffer is running or not
PopAfterStopStep ==
    ( /\ pc[Consumer] \in {"pop_enter", "pop_wait"}
      /\ pc'[Consumer] = "pop_ret"
      /\ m_messageQueue # <<>>
      /\ batchSize > 0 )
    => /\ IsPrefix(popped \o <<Head(m_messageQueue)>>, popped')
       /\ popRet'

\* C6: without Clear, every acknowledged record is in the main queue or has
\* been returned by a pop, never both and never twice; a PopMessages that
\* finds records returns some even when the buffer is stopped.
NoLossNoDup == [](NoLossNoDupState) /\ [][PopAfterStopStep]_vars

\* C6 witness: the buffer is stopped, it still holds an acknowledged record,
\* and a PopMessages has returned another one
NoLossNoDupWitness ==
    /\ ~buffer_running
    /\ pc[Consumer] = "pop_ret"
    /\ popRet
    /\ popped # <<>>
    /\ m_messageQueue # <<>>

\* the records WriteSingleMessage was applied to, in that order
HandedMessages == [i \in 1..Len(handed) |-> handed[i].m]

\* the step on which Stop returns after it has stopped a recorder
StopReturns == ctl = "stop_close" /\ ctl' = "idle"

\* what holds on the step on which Stop returns
DrainedAtReturn ==
    StopReturns =>
        /\ pc[Consumer] = "idle"
        /\ m_messageQueue = <<>>
        /\ HandedMessages = acked
        /\ IsSuffix(queueAtStop, HandedMessages)

\* C2: drain to completion.  With the producers stopped when Stop is called
\* and the threads scheduled fairly, Stop returns, which it does only after it
\* has joined the writer thread that left WriteLoop; the writer has never
\* left its loop while the queue holds a record; and
\* when Stop returns the queue is empty and the records handed to Storage are
\* the acknowledged records, each once and in queue order, the last of them
\* being the records that were in the queue when Stop was called.
DrainToCompletion ==
    /\ [](pc[Consumer] = "w_done" => m_messageQueue = <<>>)
    /\ [][DrainedAtReturn]_vars
    /\ (ctl = "stop_subs") ~> (ctl = "idle" /\ m_state = "STOPPED")

\* C2 witness: Stop has returned, called with two records in the queue, and
\* both have been handed to Storage
DrainToCompletionWitness ==
    /\ ctl = "idle"
    /\ m_state = "STOPPED"
    /\ pc[Consumer] = "idle"
    /\ Len(queueAtStop) = 2
    /\ IsSuffix(queueAtStop, HandedMessages)

\* the step on which WriteSingleMessage is applied to Head(st_msgs)
WritesSingle ==
    /\ st_pc \in {"batch", "single"}
    /\ st_msgs # <<>>
    /\ Len(handed') = Len(handed) + 1

\* every record of every file belongs to a channel of that file
OnlyRegisteredWritten ==
    \A f \in DOMAIN files : \A i \in 1..Len(files[f].messages) :
        \E ch \in files[f].channels : ch.topic = files[f].messages[i].topic

\* what WriteSingleMessage does with a record of an unknown topic
UnregisteredStep ==
    (WritesSingle /\ ~TopicKnown(m_topicInfos, Head(st_msgs).topic)) =>
        /\ handed'[Len(handed')].m = Head(st_msgs)
        /\ ~handed'[Len(handed')].ok
        /\ ~st_all'
        /\ files' = files
        /\ m_fileInfo'.file_size = m_fileInfo.file_size
        /\ m_fileInfo' = m_fileInfo

\* C10: a record whose topic is not in m_topicInfos is never written:
\* WriteSingleMessage returns false for it, no file changes and file_size
\* stays as it was; every record a file holds is of a topic registered in
\* that file, before and after a rotation.
UnregisteredNeverWritten == [](OnlyRegisteredWritten) /\ [][UnregisteredStep]_vars

\* C10 witness: two records filled the first file, the storage rotated to a
\* new file that re-registered topic "a" alone, and the third record, of the
\* unregistered topic "b", has been refused
UnregisteredNeverWrittenWitness ==
    /\ Len(handed) = 3
    /\ handed[1].ok /\ handed[2].ok /\ ~handed[3].ok
    /\ handed[3].m.topic = "b"
    /\ DOMAIN m_topicInfos = {"a"}
    /\ m_fileInfo.is_open /\ writer_open
    /\ files[m_fileInfo.filename].messages = <<>>
    /\ files[m_fileInfo.filename].schemas = {[id |-> 2, name |-> "pkg.A"]}
    /\ m_fileInfo.file_size = 0

\* the step on which thread p's PushMessage returns
PushReturns(p) == pc[p] # "push_ret" /\ pc'[p] = "push_ret"

\* C1 (as claimed): when Stop returns and no write has failed, the queue is
\* empty and every record whose push was acknowledged during the run has
\* been handed to Storage.
StopHandsEverything ==
    [][ (StopReturns /\ \A i \in 1..Len(handed) : handed[i].ok) =>
            /\ m_messageQueue = <<>>
            /\ \A i \in 1..Len(acked) : Count(HandedMessages, acked[i]) = 1 ]_vars

\* the handed records of a topic start its acknowledged records
FifoState ==
    \A t \in Topics : IsPrefix(OfTopic(HandedMessages, t), OfTopic(acked, t))

\* an acknowledged push enqueues its arguments; a write stores what it got
FifoStep ==
    /\ \A p \in Producers : (PushReturns(p) /\ ret'[p]) =>
          /\ Len(acked') = Len(acked) + 1
          /\ acked'[Len(acked')].topic = parg[p].topic
          /\ acked'[Len(acked')].data = parg[p].data
    /\ (Len(handed') = Len(handed) + 1 /\ handed'[Len(handed')].ok) =>
          LET written == files'[m_fileInfo.filename].messages IN
          /\ handed'[Len(handed')].m = Head(st_msgs)
          /\ written[Len(written)].data = Head(st_msgs).data
          /\ written[Len(written)].topic = Head(st_msgs).topic

\* C7: FIFO within topic.  In every state of a run and for every topic, the
\* records of the topic handed to Storage are the first of the topic's
\* acknowledged records, in the order of acknowledgement; an acknowledged
\* push has enqueued the topic and the bytes it was called with, and a record
\* that is written reaches the file with the bytes it was popped with.
FifoWithinTopic == [](FifoState) /\ [][FifoStep]_vars

\* C7 witness: two records of one topic, pushed while a record of the other
\* topic could have been, were popped in one batch and both have been written
FifoWithinTopicWitness ==
    /\ Len(handed) = 2
    /\ handed[1].ok /\ handed[2].ok
    /\ handed[1].m.topic = handed[2].m.topic
    /\ handed[1].m.data # handed[2].m.data
    /\ m_maxQueueSize = 2
    /\ pc[Consumer] = "w_write"
    /\ st_pc = "batch"
    /\ st_msgs = <<>>

\* popped records and queue carry consecutive sequence numbers
SequenceState ==
    LET all == popped \o m_messageQueue IN
    \A i \in 1..(Len(all) - 1) :
        all[i + 1].sequence_number = all[i].sequence_number + 1

\* a returning push takes a sequence number iff it is acknowledged
SequenceStep ==
    \A p \in Producers : PushReturns(p) =>
        IF ret'[p]
           THEN /\ buffer_totalMessages' = buffer_totalMessages + 1
                /\ acked'[Len(acked')].sequence_number = buffer_totalMessages
           ELSE buffer_totalMessages' = buffer_totalMessages

\* C8: within a run, the sequence numbers of the records PopMessages has
\* returned, in return order, followed by those of the queue, in queue order,
\* go up by one from record to record; an acknowledged push takes the next
\* number, a refused push takes none.
SequenceGapless == [](SequenceState) /\ [][SequenceStep]_vars

\* C8 witness: two PopMessages calls of one run, on a buffer of capacity 1,
\* have returned one record each, of different topics
SequenceGaplessWitness ==
    /\ m_maxQueueSize = 1
    /\ Len(popped) = 2
    /\ popped[1].topic # popped[2].topic
    /\ popped[2].sequence_number = popped[1].sequence_number + 1
    /\ pc[Consumer] = "pop_ret"

\* C9 (as claimed): in every run, as long as no write has failed, the first
\* record written carries sequence 0 and the sequences written in the run
\* increase.
SequenceFromZero ==
    (\A i \in 1..Len(handed) : handed[i].ok) =>
        /\ handed # <<>> => handed[1].m.sequence_number = 0
        /\ \A i \in 1..(Len(handed) - 1) :
              handed[i].m.sequence_number < handed[i + 1].m.sequence_number

\* ------------------------------------------------ the recorder's lifecycle
\* every variable but the position of the controller thread
allButCtl ==
    <<bufVars, pc, prodVars, consVars, histVars, stoVars, callVars,
      m_state, recorder_running, recorder_totalMessages, m_subscribers,
      ctl_i, nRuns, startTotal, queueAtStop, m_config_topics, playVars>>

\* a step that changes m_state is one of the stores of recorder.hpp: line 116
\* in Start, 273 in Pause, 286 in Resume, 183 in Stop, 132 in the unwinding
\* of a Start whose registration failed
LifecycleStep ==
    m_state' # m_state =>
        \/ m_state = "STOPPED" /\ m_state' = "RUNNING" /\ Start_Run
        \/ m_state = "RUNNING" /\ m_state' = "PAUSED" /\ Pause
        \/ m_state = "PAUSED" /\ m_state' = "RUNNING" /\ Resume
        \/ m_state' = "STOPPED" /\ (Stop_Enter \/ Start_Register)

\* a Pause or Resume that does not apply returns with nothing changed
NoEffectStep ==
    /\ (ctl = "idle" /\ ctl' = "pause_void") => m_state # "RUNNING" /\ UNCHANGED allButCtl
    /\ (ctl = "idle" /\ ctl' = "resume_void") => m_state # "PAUSED" /\ UNCHANGED allButCtl

\* C11 (amended): the Recorder state starts STOPPED and changes only from
\* STOPPED to RUNNING in a Start whose storage has opened (whether or not
\* the Start then succeeds), from RUNNING to PAUSED in Pause, from PAUSED to
\* RUNNING in Resume, and from any state to STOPPED in Stop or in a Start
\* whose topic registration fails; Pause in a state other than RUNNING and
\* Resume in a state other than PAUSED change nothing.
RecorderLifecycle ==
    /\ m_state = "STOPPED"
    /\ [][LifecycleStep /\ NoEffectStep]_vars

\* C11 witness: the recorder was started and paused, and a second Pause has
\* returned without effect
RecorderLifecycleWitness ==
    /\ ctl = "pause_void"
    /\ m_state = "PAUSED"
    /\ nRuns = 1

\* C11 (as claimed): the state goes from STOPPED to RUNNING in a successful
\* Start only: a Start that fails in topic registration has not made the
\* recorder RUNNING.
RunningBySuccessfulStartOnly ==
    [][(ctl = "start_reg" /\ ctl' = "start_unwind") => m_state # "RUNNING"]_vars

\* a callback that begins while the recorder is not RUNNING is over in the
\* step that begins it, and the step leaves the buffer, with its sequence
\* counter, and the count of recorded messages alone
DroppedCallbackStep ==
    (nPush' # nPush /\ m_state # "RUNNING") =>
        /\ pc' = pc
        /\ UNCHANGED <<bufVars, recorder_totalMessages, acked, parg, ret>>

\* the step of Pause leaves the subscribers and the buffer alone
PauseFrameStep ==
    (m_state = "RUNNING" /\ m_state' = "PAUSED") =>
        UNCHANGED <<m_subscribers, bufVars, pc, recorder_running>>

\* C12: an OnMessageReceived callback that begins while the recorder is PAUSED
\* or STOPPED leaves the buffer contents, the buffer's sequence counter and
\* total_messages unchanged; Pause itself leaves the subscribers registered
\* and the buffer untouched.
DropWhenNotRunning == [][DroppedCallbackStep /\ PauseFrameStep]_vars

\* C12 witness: the only callback of the run began after Pause and has
\* returned: nothing was enqueued, both subscribers are still registered
DropWhenNotRunningWitness ==
    /\ m_state = "PAUSED"
    /\ nRuns = 1
    /\ nPush = 1
    /\ \A p \in Producers : pc[p] = "idle"
    /\ acked = <<>>
    /\ buffer_totalMessages = 0
    /\ recorder_totalMessages = 0
    /\ m_subscribers = {"a", "b"}

\* the record with sequence number n is in the buffer
Buffered(n) == \E i \in 1..Len(m_messageQueue) : m_messageQueue[i].sequence_number = n

\* the writer thread has passed the record with sequence number n to
\* WriteSingleMessage
Handed(n) == \E i \in 1..Len(handed) : handed[i].m.sequence_number = n

\* the steps of Pause and Resume leave the writer thread and its flag alone
WriterKeptStep ==
    (m_state' # m_state /\ m_state # "STOPPED" /\ m_state' # "STOPPED") =>
        UNCHANGED <<pc, recorder_running, consVars, callVars>>

\* C13: a record that is in the buffer while the recorder is PAUSED is
\* eventually handed to the storage by the writer thread, unless the recorder
\* leaves PAUSED first (the threads being scheduled fairly); Pause and
\* Resume never stop or restart the writer thread, which is running whenever
\* the recorder is PAUSED.
DrainWhilePaused ==
    /\ [](m_state = "PAUSED" =>
             recorder_running /\ pc[Consumer] \notin {"idle", "w_done"})
    /\ [][WriterKeptStep]_vars
    /\ \A n \in 0..(MaxDeliver - 1) :
          (m_state = "PAUSED" /\ Buffered(n)) ~> (m_state # "PAUSED" \/ Handed(n))

\* C13 witness: Pause was called with both records of the run in the buffer
\* and none written yet
DrainWhilePausedWitness ==
    /\ m_state = "PAUSED"
    /\ Len(m_messageQueue) = 2
    /\ handed = <<>>
    /\ \A p \in Producers : pc[p] = "idle"

\* the step on which a Start whose registration failed returns false
StartFails == ctl = "start_unwind" /\ ctl' = "idle"

\* C14 (as claimed): when the registration of a topic fails during Start,
\* Start returns false with everything unwound: the state is STOPPED, the
\* storage is closed, the buffer is stopped, there is no writer thread, and
\* no subscriber of this Start remains registered.
FailedStartUnwinds ==
    [][StartFails =>
          /\ m_state' = "STOPPED"
          /\ ~m_fileInfo'.is_open
          /\ ~writer_open'
          /\ ~buffer_running'
          /\ pc'[Consumer] = "idle"
          /\ ~recorder_running'
          /\ m_subscribers' = {}]_vars

\* a Start that returns before it has changed anything returns true when the
\* recorder is RUNNING and false when the topic list is empty or the recorder
\* is PAUSED
StartReturnsEarlyStep ==
    /\ (ctl = "idle" /\ ctl' = "start_true") =>
          m_state = "RUNNING" /\ UNCHANGED allButCtl
    /\ (ctl = "idle" /\ ctl' = "start_false") =>
          /\ m_config_topics = <<>> \/ m_state = "PAUSED"
          /\ UNCHANGED allButCtl

\* a Start that changes anything was called on a STOPPED recorder with a
\* topic list that is not empty
StartTakesEffectStep ==
    (Start_Open \/ (ctl = "idle" /\ ctl' = "start_clear")) =>
        m_state = "STOPPED" /\ m_config_topics # <<>>

\* C15: Recorder.Start has effect only from STOPPED with a non-empty topic
\* list: with an empty topic list it returns false without opening storage or
\* changing state; called while RUNNING it returns true and changes nothing;
\* called while PAUSED, when the file is open, it returns false and leaves the
\* state, the open file, the buffer and the writer thread untouched.
StartOnlyFromStopped ==
    /\ [](m_state = "PAUSED" => m_fileInfo.is_open /\ pc[Consumer] # "idle")
    /\ [](m_config_topics = <<>> => m_state = "STOPPED" /\ files = EmptyMap)
    /\ [][StartReturnsEarlyStep /\ StartTakesEffectStep]_vars

\* C15 witness: Start was called on a PAUSED recorder whose buffer holds a
\* record and has returned false
StartOnlyFromStoppedWitness ==
    /\ ctl = "start_false"
    /\ m_state = "PAUSED"
    /\ m_messageQueue # <<>>
    /\ m_fileInfo.is_open
    /\ pc[Consumer] # "idle"

\* ------------------------------------------------------------- idempotence
\* a Stop that goes on stores STOPPED over RUNNING, PLAYING or PAUSED, and
\* the state is STOPPED when it returns
FirstStopStep ==
    /\ (ctl = "idle" /\ ctl' = "stop_subs") =>
          m_state \in {"RUNNING", "PAUSED"} /\ m_state' = "STOPPED"
    /\ (ctl = "stop_close" /\ ctl' = "idle") => m_state' = "STOPPED"
    /\ (ctl = "idle" /\ ctl' = "pstop_signal") =>
          player_state \in {"PLAYING", "PAUSED"} /\ player_state' = "STOPPED"
    /\ (ctl = "pstop_close" /\ ctl' = "idle") => player_state' = "STOPPED"

\* STOPPED is left in Start only, so that a Stop that follows a Stop finds it.
\* A Pause or a Resume that read the state before the playback thread stored
\* STOPPED at the end of the log stores its own state afterwards: such a call
\* began before the thread ended, so it does not come between two Stops.
StoppedUntilStartStep ==
    /\ (m_state = "STOPPED" /\ m_state' # "STOPPED") => Start_Run
    /\ (player_state = "STOPPED" /\ player_state' # "STOPPED")
          => PlayerStart \/ ctl \in {"ppause_store", "presume_store"}

\* a Stop called on a STOPPED object returns with nothing changed
SecondStopStep ==
    /\ (ctl = "idle" /\ ctl' = "stop_void") =>
          m_state = "STOPPED" /\ UNCHANGED allButCtl
    /\ (ctl = "idle" /\ ctl' = "pstop_void") =>
          player_state = "STOPPED" /\ UNCHANGED allButCtl
    /\ (ctl = "idle" /\ m_state = "STOPPED") => ctl' # "stop_subs"
    /\ (ctl = "idle" /\ player_state = "STOPPED") => ctl' # "pstop_signal"

\* C16: Recorder.Stop and Player.Stop are idempotent: a Stop called after a
\* Stop has returned finds the state STOPPED and returns with no variable
\* changed; the first Stop reaches STOPPED from RUNNING or PLAYING and from
\* PAUSED.
StopIdempotent == [][FirstStopStep /\ StoppedUntilStartStep /\ SecondStopStep]_vars

\* C16 witness: a run of the recorder wrote a record and was stopped, and a
\* second Stop has returned early: the file is closed, the writer thread
\* joined, the subscribers cleared
StopIdempotentWitness ==
    /\ ctl = "stop_void"
    /\ nRuns = 1
    /\ handed # <<>>
    /\ m_state = "STOPPED"
    /\ ~m_fileInfo.is_open
    /\ pc[Consumer] = "idle"
    /\ m_subscribers = {}
    /\ ~buffer_running

\* ---------------------------------------------------------- total_messages
\* the callbacks whose PushMessage has returned true and which have not
\* counted the record yet (recorder.hpp:339-342)
Uncounted == {p \in Producers : pc[p] = "push_ret" /\ ret[p]}

\* C17 (as claimed): total_messages is the number of callbacks whose
\* PushMessage has returned true since the last successful Start.  A Start
\* that returns false is not that Start, and no acknowledged push is taken
\* back, so when it returns the count, with the callbacks that are about to
\* add their one, is at least what the Start found.
TotalSinceSuccessfulStart ==
    [][StartFails =>
          recorder_totalMessages' + Cardinality(Uncounted) >= startTotal]_vars

\* ------------------------------------------------------------ failed writes
\* the writer thread is inside WriteMessageBatch
InBatchCall == pc[Consumer] = "w_write"

\* the writer thread calls WriteMessageBatch with the batch it has popped,
\* which is not empty, on an open storage
BatchCallStep ==
    (~InBatchCall /\ InBatchCall') =>
        st_pc' = "batch" /\ st_msgs' = batch /\ batch # <<>> /\ st_all'

\* one record of the batch is handed to WriteSingleMessage: its result goes
\* into allSuccess and the loop goes on with the next record
BatchRecordStep ==
    (InBatchCall /\ handed' # handed) =>
        /\ handed' = Append(handed, [m |-> Head(st_msgs), ok |-> handed'[Len(handed')].ok])
        /\ st_msgs' = Tail(st_msgs)
        /\ st_all' = (st_all /\ handed'[Len(handed')].ok)
        /\ st_pc' = "batch"

\* WriteMessageBatch returns after the last record: false iff a record of
\* the call failed; it throws only when the re-open of a rotation fails
BatchReturnStep ==
    (InBatchCall /\ st_pc = "batch" /\ st_pc' = "done") =>
        /\ st_msgs = <<>>
        /\ st_ret' = "true" <=> (st_all /\ ~(SplitNeeded /\ ~writer_open'))
        /\ st_ret' = "false" <=> (~st_all /\ ~(SplitNeeded /\ ~writer_open'))
        /\ st_ret' = "throw" <=> (SplitNeeded /\ ~writer_open')

\* whatever the call returned or threw, the writer loop goes back to its test
LoopGoesOnStep ==
    (InBatchCall /\ ~InBatchCall') =>
        st_ret \in {"true", "false", "throw"} /\ pc'[Consumer] = "w_test"

\* C18: a failed write drops only its own record: in WriteMessageBatch every
\* record after a failed one is still handed to WriteSingleMessage, the call
\* returns false if and only if a record of it failed, and the writer loop
\* goes on with the next batch after a call that failed or threw (a failed
\* re-open during rotation included); it leaves its loop only when m_running
\* is false.
FailedWriteDropsOwnRecord ==
    /\ []((InBatchCall /\ st_pc = "done") => HandedMessages = popped)
    /\ [](InBatchCall => HandedMessages \o st_msgs = popped)
    /\ [](pc[Consumer] = "w_done" => ~recorder_running)
    /\ [][BatchCallStep /\ BatchRecordStep /\ BatchReturnStep /\ LoopGoesOnStep]_vars

\* C18 witness: a batch of two records, the first failed, the second was
\* written, and the call has returned false
FailedWriteDropsOwnRecordWitness ==
    /\ InBatchCall
    /\ st_pc = "done"
    /\ st_ret = "false"
    /\ Len(handed) = 2
    /\ Len(popped) = 2
    /\ ~handed[1].ok
    /\ handed[2].ok

\* ----------------------------------------------------------------- rotation
\* the positions in handed of the records that were written
Written == {i \in 1..Len(handed) : handed[i].ok}

\* the files that hold the record handed[i]
FilesOf(i) ==
    {f \in DOMAIN files :
        \E j \in 1..Len(files[f].messages) :
            files[f].messages[j].sequence = handed[i].m.sequence_number}

\* the estimated bytes written since Open (storage.hpp:368)
EstimatedBytes == Cardinality(Written) * (PayloadBytes + RecordOverhead)

\* C19 (as claimed): once more than max_file_size estimated bytes have been
\* written since Open, by write calls that have returned and with every
\* re-open successful, at least two output files exist, every written record
\* is in exactly one of them, and the files hold written records only.
RotationContinuity ==
    (/\ nRuns = 1
     /\ writer_open
     /\ st_pc \in {"idle", "done"}
     /\ EstimatedBytes > max_file_size) =>
        /\ Cardinality(DOMAIN files) >= 2
        /\ \A i \in Written : Cardinality(FilesOf(i)) = 1
        /\ \A f \in DOMAIN files : \A j \in 1..Len(files[f].messages) :
              \E i \in Written : files[f].messages[j].sequence = handed[i].m.sequence_number

\* the step of a write call on which TrySplitFileIfNeeded rotates: the size
\* has reached the limit and the new file opens
Rotates ==
    /\ st_pc \in {"batch", "single"} /\ st_msgs = <<>> /\ st_pc' = "done"
    /\ SplitNeeded
    /\ st_ret' # "throw"

\* the open file has a channel, with its schema, for the topic
RegisteredInFile(t) ==
    LET f == files[m_fileInfo.filename]
        info == m_topicInfos[t]
    IN /\ \E s \in f.schemas : s.id = info.schema_id /\ s.name = info.proto_type
       /\ \E c \in f.channels :
             c.id = info.channel_id /\ c.topic = t /\ c.schemaId = info.schema_id

\* after the rotation one file is open, empty, and it has every topic that
\* was registered before
RotationStep ==
    Rotates =>
        /\ writer_open' /\ m_fileInfo'.is_open
        /\ m_fileInfo'.file_size = 0
        /\ m_fileInfo'.filename \in DOMAIN files'
        /\ files'[m_fileInfo'.filename].messages = <<>>
        /\ DOMAIN m_topicInfos' = DOMAIN m_topicInfos
        /\ \A t \in DOMAIN m_topicInfos' : RegisteredInFile(t)'

\* a record that is written goes to the open file, behind the records the
\* file holds, and every registered topic has its channel and schema there
WriteToOpenFileStep ==
    (handed' # handed /\ handed'[Len(handed')].ok) =>
        /\ \A t \in DOMAIN m_topicInfos : RegisteredInFile(t)
        /\ files'[m_fileInfo.filename].messages =
              Append(files[m_fileInfo.filename].messages,
                     McapMessage(m_topicInfos, handed'[Len(handed')].m))

\* C20: after a rotation in TrySplitFileIfNeeded exactly one file is open,
\* file_size is 0, the set of registered topics is the same as before the
\* rotation with every topic's schema and channel registered again in the
\* new file, and a record of a registered topic written afterwards, the
\* write succeeding, goes to the new file.
RotationReregisters ==
    /\ [](writer_open => m_fileInfo.is_open /\ m_fileInfo.filename \in DOMAIN files)
    /\ []((writer_open /\ st_pc \in {"idle", "done"}) =>
             \A t \in DOMAIN m_topicInfos : RegisteredInFile(t))
    /\ [][RotationStep /\ WriteToOpenFileStep]_vars

\* C20 witness: the storage has rotated into a second file and a record of
\* a topic registered before the rotation has been written to it
RotationReregistersWitness ==
    /\ nRuns = 1
    /\ Cardinality(DOMAIN files) = 2
    /\ writer_open
    /\ Len(files[m_fileInfo.filename].messages) = 1
    /\ files[m_fileInfo.filename].messages[1].sequence = 2
    /\ Len(handed) = 3
    /\ \A i \in 1..3 : handed[i].ok

\* ------------------------------------------------------------------ C21
\* the channels of output file f that carry the channel id of record m
ChannelsOf(f, m) == {c \in files[f].channels : c.id = m.channelId}

LogTimeMonotonic ==
    \A f \in DOMAIN files :
       \A i, j \in 1..Len(files[f].messages) :
          (i < j /\ files[f].messages[i].topic = files[f].messages[j].topic)
             => files[f].messages[i].logTime <= files[f].messages[j].logTime

\* ------------------------------------------------------------------ C23
\* a PushMessage that was blocked on the full queue when Stop was called
\* returns false and enqueues nothing
BlockedPushStep ==
    \A p \in Producers :
       (p \in blockedAtStop /\ PushCompletes(p))
          => /\ ~ret'[p]
             /\ UNCHANGED <<m_messageQueue, m_topicQueues, buffer_totalMessages>>

\* a PopMessages that was blocked on the empty queue when Stop was called
\* returns false and dequeues nothing
BlockedPopStep ==
    (Consumer \in blockedAtStop /\ pc[Consumer] = "pop_wait" /\ pc'[Consumer] = "pop_ret")
       => /\ ~popRet'
          /\ UNCHANGED <<m_messageQueue, m_topicQueues, batch, popped>>

\* a PushMessage that begins on a buffer that is not running returns false
\* at once and changes nothing
PushWhenStoppedStep ==
    \A p \in Producers :
       (nPush' = nPush + 1 /\ pc[p] # pc'[p] /\ ~buffer_running)
          => /\ pc'[p] = "push_ret"
             /\ ~ret'[p]
             /\ UNCHANGED <<bufVars, acked>>

\* C23: a PushMessage blocked on a full buffer and a PopMessages blocked on
\* an empty buffer both return false after Stop without enqueuing or
\* dequeuing anything; a PushMessage that begins while the buffer is not
\* running returns false immediately and changes nothing (the safety part:
\* what the calls return and change)
BlockedReturnFalseOnStop ==
    [][BlockedPushStep /\ BlockedPopStep /\ PushWhenStoppedStep]_vars

\* ------------------------------------------------------------------ C24
\* the state of the Player changes only on these steps
PlayerLifecycleStep ==
    player_state' # player_state =>
       \/ /\ player_state = "STOPPED" /\ player_state' = "PLAYING"
          /\ PlayerStart /\ play_pc' = "begin"
       \/ player_state = "PLAYING" /\ player_state' = "PAUSED" /\ PlayerPause_Store
       \/ player_state = "PAUSED" /\ player_state' = "PLAYING" /\ PlayerResume_Store
       \/ /\ player_state' = "STOPPED"
          /\ \/ PlayerStop_Enter
             \/ PlayLoop_End /\ play_it > Len(PlayFile) /\ ~loop_playback

\* a Start that returns false leaves the state STOPPED and starts no thread
PlayerStartFailsStep ==
    (ctl = "idle" /\ ctl' = "pstart_false")
       => player_state' = "STOPPED" /\ play_pc' = play_pc

\* C24: the Player state starts STOPPED and changes only from STOPPED to
\* PLAYING in a successful Start, from PLAYING to PAUSED in Pause, from
\* PAUSED to PLAYING in Resume, and to STOPPED in Stop or when the playback
\* thread reaches the end of the log with loop_playback off; a Start that
\* returns false leaves the state STOPPED and starts no thread
PlayerLifecycle ==
    /\ player_state = "STOPPED"
    /\ [][PlayerLifecycleStep /\ PlayerStartFailsStep]_vars

\* ------------------------------------------------------------------ C25
\* C25: at most one playback thread exists per Player: a Start that goes
\* past its tests (it replaces the reader and may start a thread) is taken
\* only from STOPPED with the previous thread joined, and no Start ever
\* constructs a second thread next to a thread that was not joined
OnePlaybackThread ==
    /\ [](ctl # "terminated")
    /\ [][PlayerStart => (player_state = "STOPPED" /\ ~Joinable)]_vars

\* ------------------------------------------------------------------ C26
\* C26: a playback thread that is paused, or about to block in the pause
\* wait, when Stop or Resume is called eventually leaves the wait: no
\* interleaving of the controller's stores and notify_all with the thread's
\* predicate check and wait leaves it blocked.  A thread that is blocked in
\* the wait leaves it only when notified (a spurious wake-up may never
\* come), so whenever it is blocked either its predicate is still false or
\* the notification of the Stop in progress is still to come
NoLostWakeup ==
    play_pc = "pause_blocked" =>
       \/ player_state = "PAUSED" /\ player_running
       \/ ctl = "pstop_signal"
       \/ ctl = "terminated"

\* ------------------------------------------------------------------ C27
\* C27: while the player is PAUSED no record is published: from the return
\* of Pause (the state is PAUSED) until Resume or Stop changes the state, the
\* playback thread hands no record to Publish, wherever in its loop the
\* thread was when Pause was called
NoPublishWhilePaused == [][player_state = "PAUSED" => published' = published]_vars

\* ------------------------------------------------------------------ C28
\* a record of the log that is to be published: protobuf schema, a channel
\* topic, and a publisher for that topic
ToPublish(r) == r.protobuf /\ r.topic # "" /\ r.topic \in PublisherTopics

\* the log in enumeration order, restricted to the records to publish
Expected == SelectSeq(PlayFile, ToPublish)

\* the records to publish among the first k records of the log
ExpectedUpTo(k) == SelectSeq(SubSeq(PlayFile, 1, k), ToPublish)

\* the playback thread is inside a pass, play_it being the next record
InPass ==
    play_pc \in {"test", "check", "pause_eval", "pause_false", "pause_blocked",
                 "after_wait", "delay", "publish", "end"}

\* C28: in a replay that is never stopped, whatever Pause and Resume calls
\* interleave with it, the records handed to Publish are, pass after pass,
\* the log in enumeration order restricted to the records with a protobuf
\* schema, a known channel topic and a publisher: none skipped, duplicated or
\* reordered; the other records are neither published nor counted; and when
\* the only pass has ended exactly these records were published
PassInOrder ==
    /\ \A i \in 1..Len(published) :
          LET e == Expected[((i - 1) % Len(Expected)) + 1] IN
          published[i].topic = e.topic /\ published[i].data = e.data
    /\ InPass =>
          /\ m_playedMessages <= Len(ExpectedUpTo(play_it - 1))
          /\ Len(published) % Len(Expected) = Len(ExpectedUpTo(play_it - 1)) % Len(Expected)
    /\ play_pc = "done" => Len(published) = Len(Expected)

\* C28 witness: without loop_playback the pass over the five records has
\* ended and the two records to publish were published, in log order
PassInOrderWitness ==
    /\ play_pc = "done"
    /\ ~loop_playback
    /\ Len(published) = 2
    /\ published[1].data = 1
    /\ published[2].data = 5

\* ------------------------------------------------------------------ C29
\* the step on which a record is handed to Publish and Publish returns false
PublishFails ==
    /\ Len(published') = Len(published) + 1
    /\ ~published'[Len(published')].ok

\* the records of the current pass whose Publish returned true
PublishedOkInPass ==
    LET k == Len(ExpectedUpTo(play_it - 1)) IN
    {i \in (Len(published) - k + 1)..Len(published) : published[i].ok}

\* C29: when Publish returns false for a record, played_messages is not
\* incremented for it and playback goes on with the next record; so inside a
\* pass played_messages is the number of records of that pass whose Publish
\* returned true
FailedPublishNotCounted ==
    /\ [][PublishFails => (m_playedMessages' = m_playedMessages /\ play_it' = play_it + 1)]_vars
    /\ [](InPass => m_playedMessages = Cardinality(PublishedOkInPass))

\* ------------------------------------------------------------------ C30
\* the playback thread ends a pass and, with loop_playback, begins another
LoopRestart == play_pc = "end" /\ play_pc' = "begin"

\* C30: with loop_playback and no Stop the playback thread restarts from the
\* first record each time it reaches the end of the log, the records handed
\* to Publish repeat exactly in every pass, and played_messages grows past
\* the number of records of the file: one pass counts at most every record
\* once, so the count has to be carried over every restart
LoopReplay ==
    /\ [][(play_pc = "begin" /\ play_pc' = "test") => play_it' = 1]_vars
    /\ [](\A i \in 1..Len(published) :
             LET e == Expected[((i - 1) % Len(Expected)) + 1] IN
             published[i].topic = e.topic /\ published[i].data = e.data)
    /\ [][LoopRestart => m_playedMessages' = m_playedMessages]_vars

\* ------------------------------------------------------------------ C31
\* the rate the stated semantics give to a rate handed to the player: 0 stays
\* 0 (no delay), a negative rate becomes 1, a positive rate is kept
SemanticRate(rate) == IF rate < 0 THEN 1 ELSE rate

\* the playback thread passes the delay of a protobuf record that is not the
\* first of its pass and lies after the record before it
DelayDue ==
    /\ PlayLoop_Delay
    /\ PlayFile[play_it].protobuf
    /\ ~firstMessage
    /\ PlayFile[play_it].logTime > lastTimestamp

\* C31: whichever way a rate reached the player, by PlayerConfig.playback_rate
\* or by SetPlaybackRate: at rate 0 no inter-record delay is slept, a
\* negative rate counts as 1 (the recorded cadence), at rate 2 every delay is
\* half the delay of rate 1 (in whole milliseconds), and a change of the rate
\* leaves the delays already slept as they are
RateSemantics ==
    /\ [][DelayDue =>
            IF SemanticRate(requested_rate) = 0
               THEN slept' = slept
               ELSE slept' = Append(slept,
                                    [it |-> play_it,
                                     ms |-> DelayMs(PlayFile[play_it].logTime - lastTimestamp,
                                                    SemanticRate(requested_rate))])]_vars
    /\ [][SetPlaybackRate => slept' = slept]_vars

\* ------------------------------------------------------------------ C32
\* Player::Stop returns: after its last statement, or at once on a STOPPED
\* player
PlayerStopReturns ==
    \/ PlayerStop_Close
    \/ ctl = "pstop_void" /\ Returned

\* C32: whenever Player::Stop has returned, after whatever went before
\* (playback that reached the end of the log by itself included), the
\* playback thread has exited and been joined, running is false, the
\* publishers are cleared and the reader is not open
StopLeavesNothingBehind ==
    [][PlayerStopReturns =>
         /\ ~Joinable'
         /\ ~player_running'
         /\ m_publishers' = {}
         /\ reader_open' # "open"]_vars

\* ------------------------------------------------------------------ C33
\* a playback thread exists and has not left PlayLoop
ThreadAlive == play_pc \notin {"none", "done"}

\* C33: in every reachable state of a running process, Player state PLAYING
\* or PAUSED implies that a playback thread is alive; in particular a Pause
\* or a Resume that races with the thread's store of STOPPED at the end of
\* the log never leaves the player PAUSED or PLAYING without a thread
StateImpliesThread ==
    (ctl # "terminated" /\ player_state \in {"PLAYING", "PAUSED"}) => ThreadAlive

\* ------------------------------------------------------------------ C34
\* C34: every access to the file state of the storage happens while the
\* mutex of the storage is held: a GetFileSize of the controller thread never
\* takes place while a write call holds the mutex on the writer thread, that
\* is between the records of a batch or between the last write and the
\* rotation
FileSizeReadSerialized == [][GetFileSize => ~StorageLocked]_vars

\* ------------------------------------------------------------------ C35
\* the records of topic t the buffer holds, in push order
TopicRecords(t) == IF t \in DOMAIN m_topicQueues THEN m_topicQueues[t] ELSE <<>>

\* the consumer's call of PopMessagesByTopic returns
ByTopicReturns ==
    pc[Consumer] \in {"popt_enter", "popt_wait"} /\ pc'[Consumer] = "pop_ret"

\* C35 (amended): PopMessagesByTopic differs from PopMessages on a stopped
\* buffer: a call that finds the buffer stopped, on entry or after its wait,
\* returns an empty batch and removes nothing, whether or not records of the
\* topic are held, and on entry it does not wait; the records stay in the
\* main queue and in the sub-queue of their topic
ByTopicEmptyWhenStopped ==
    /\ [][(ByTopicReturns /\ ~buffer_running) =>
             /\ batch' = <<>>
             /\ UNCHANGED <<m_messageQueue, m_topicQueues, popped>>]_vars
    /\ [][(pc[Consumer] = "popt_enter" /\ pc'[Consumer] # "popt_enter" /\ ~buffer_running)
             => pc'[Consumer] = "pop_ret"]_vars

\* C35 witness: PopMessagesByTopic("b", k) with k > 0 has returned the empty
\* batch on a stopped buffer that holds a record of topic b
ByTopicEmptyWhenStoppedWitness ==
    /\ pc[Consumer] = "pop_ret"
    /\ popTopic = "b"
    /\ batchSize > 0
    /\ batch = <<>>
    /\ ~buffer_running
    /\ TopicRecords("b") # <<>>
    /\ popped = <<>>

\* C35 (as claimed): on a stopped buffer PopMessagesByTopic returns the
\* records of the topic the buffer holds, up to max_batch_size, and removes
\* them, as PopMessages does; without such records it returns the empty
\* batch without waiting
ByTopicSymmetricOnStop ==
    [][(pc[Consumer] = "popt_enter" /\ pc'[Consumer] # "popt_enter" /\ ~buffer_running) =>
          /\ pc'[Consumer] = "pop_ret"
          /\ batch' = SubSeq(TopicRecords(popTopic), 1,
                             Min(batchSize, Len(TopicRecords(popTopic))))
          /\ Len(m_messageQueue') = Len(m_messageQueue) - Len(batch')]_vars

\* ------------------------------------------------------------------ C36
\* sequence q without the records that occur in sequence out
Without(q, out) == SelectSeq(q, LAMBDA m : \A i \in 1..Len(out) : out[i] # m)

\* C36: PopMessagesByTopic(t, k) on a running buffer returns the first
\* min(k, |T[t]|) records of topic t in push order, removes exactly those
\* records from T[t] and from Q, keeps the order of the records that remain
\* in Q, and leaves the sub-queues of the other topics and the sequence
\* counter as they were
ByTopicFrame ==
    [][(ByTopicReturns /\ buffer_running) =>
          LET T == TopicRecords(popTopic)
              n == Min(batchSize, Len(T))
          IN /\ batch' = SubSeq(T, 1, n)
             /\ m_messageQueue' = Without(m_messageQueue, SubSeq(T, 1, n))
             /\ Len(m_messageQueue') = Len(m_messageQueue) - n
             /\ IF n = Len(T)
                   THEN popTopic \notin DOMAIN m_topicQueues'
                   ELSE /\ popTopic \in DOMAIN m_topicQueues'
                        /\ m_topicQueues'[popTopic] = SubSeq(T, n + 1, Len(T))
             /\ \A t \in Topics \ {popTopic} :
                   /\ (t \in DOMAIN m_topicQueues') = (t \in DOMAIN m_topicQueues)
                   /\ t \in DOMAIN m_topicQueues => m_topicQueues'[t] = m_topicQueues[t]
             /\ buffer_totalMessages' = buffer_totalMessages]_vars

\* C36 witness: PopMessagesByTopic("b", k) has returned a record of topic b
\* that was pushed after a record of topic a, and the record of topic a is
\* still in Q: the record was taken out of the middle
ByTopicFrameWitness ==
    /\ pc[Consumer] = "pop_ret"
    /\ popTopic = "b"
    /\ buffer_running
    /\ batch # <<>>
    /\ popped = batch
    /\ \E i \in 1..Len(m_messageQueue) :
          /\ m_messageQueue[i].topic = "a"
          /\ m_messageQueue[i].sequence_number < batch[1].sequence_number

\* ------------------------------------------------------------------ C37
\* the consumer's call of PopMessages returns
PopReturns ==
    pc[Consumer] \in {"pop_enter", "pop_wait"} /\ pc'[Consumer] = "pop_ret"

\* C37: PopMessages(out, k, timeout) removes exactly min(k, |Q|) records
\* from the head of Q, in order, and appends them to out; it returns true if
\* and only if this call removed at least one record, so with k = 0, or on a
\* queue still empty after the wait, it returns false whatever out held
PopMessagesContract ==
    [][PopReturns =>
          LET n == Min(batchSize, Len(m_messageQueue))
          IN /\ batch' = batch \o SubSeq(m_messageQueue, 1, n)
             /\ m_messageQueue' = SubSeq(m_messageQueue, n + 1, Len(m_messageQueue))
             /\ popRet' = (n > 0)]_vars

\* ------------------------------------------------------------------ C38
\* the records of the pass before record k that were handed to Publish
PublishedBefore(k) == {j \in 1..(k - 1) : Publishable(PlayFile[j], m_publishers) /\ PlayFile[j].protobuf}

\* the last of them
LastPublishedBefore(k) == CHOOSE j \in PublishedBefore(k) : \A i \in PublishedBefore(k) : i <= j

\* the playback thread passes the delay code for a protobuf record
DelayStep == PlayLoop_Delay /\ PlayFile[play_it].protobuf

\* C38: before it publishes a record the playback thread sleeps
\* (log_time - last_ts) / 1e6 / rate milliseconds, last_ts being the log time
\* of the record published before it; the first record of a pass has no
\* delay; a record that is skipped because its channel topic or its
\* publisher is unknown causes no sleep and leaves last_ts as it is
DelayBeforePublishOnly ==
    [][DelayStep =>
          IF ~Publishable(PlayFile[play_it], m_publishers)
             THEN slept' = slept /\ lastTimestamp' = lastTimestamp
             ELSE IF PublishedBefore(play_it) = {} \/ playback_rate <= 0
                     THEN slept' = slept
                     ELSE slept' = Append(slept,
                             [it |-> play_it,
                              ms |-> DelayMs(PlayFile[play_it].logTime
                                               - PlayFile[LastPublishedBefore(play_it)].logTime,
                                             playback_rate)])]_vars

\* ------------------------------------------------------------------ C39
\* the files that file f imports
Imports(f) == {dependency[f][i] : i \in 1..Len(dependency[f])}

\* the files reachable from the files of S by imports, S included
RECURSIVE Closure(_)
Closure(S) ==
    LET next == S \cup UNION {Imports(f) : f \in S}
    IN IF next = S THEN S ELSE Closure(next)

\* the number of imports on a shortest path to file f from the files of S,
\* which are d imports away from the root; f is reachable from S
RECURSIVE Distance(_, _, _)
Distance(S, d, f) ==
    IF f \in S THEN d ELSE Distance(S \cup UNION {Imports(g) : g \in S}, d + 1, f)

\* C39: on every finite dependency graph (chains, diamonds, shared and
\* repeated imports) BuildFileDescriptorSet terminates; the set it returns
\* holds exactly the files reachable from the file of the root descriptor,
\* each once, the root first, in breadth-first order (no file before a file
\* that is nearer to the root); a null descriptor yields the empty set
TransitiveClosureSet ==
    /\ <>(fds_pc = "done")
    /\ [](fds_pc = "done" =>
            IF toplevelDescriptor = NullDescriptor
               THEN fdSet = <<>>
               ELSE /\ {fdSet[i] : i \in 1..Len(fdSet)} = Closure({toplevelDescriptor})
                    /\ Len(fdSet) = Cardinality(Closure({toplevelDescriptor}))
                    /\ fdSet[1] = toplevelDescriptor
                    /\ \A i, j \in 1..Len(fdSet) :
                          i < j => Distance({toplevelDescriptor}, 0, fdSet[i])
                                     <= Distance({toplevelDescriptor}, 0, fdSet[j]))

\* C39 witness: the function has returned on a diamond whose second branch
\* is listed first: file 1 imports 3 and 2, both import 4, file 2 twice
TransitiveClosureSetWitness ==
    /\ fds_pc = "done"
    /\ toplevelDescriptor = 1
    /\ dependency[1] = <<3, 2>>
    /\ dependency[2] = <<4, 4>>
    /\ dependency[3] = <<4>>
    /\ fdSet = <<1, 3, 2, 4>>

\* ------------------------------------------------------------------ C40
\* a write call returns normally, with true or with false
WriteReturnsNormally ==
    st_pc # "done" /\ st_pc' = "done" /\ st_ret' \in {"true", "false"}

\* file_size changes only by the estimated size of a record written with
\* success and by a reset to 0 on Open, Close and rotation
SizeAccountingStep ==
    m_fileInfo'.file_size # m_fileInfo.file_size =>
       \/ /\ Len(handed') = Len(handed) + 1
          /\ handed'[Len(handed')].ok
          /\ m_fileInfo'.file_size = m_fileInfo.file_size + PayloadBytes + RecordOverhead
       \/ /\ m_fileInfo'.file_size = 0
          /\ \/ ~m_fileInfo.is_open /\ m_fileInfo'.is_open
             \/ m_fileInfo.is_open /\ ~m_fileInfo'.is_open
             \/ SplitNeeded /\ st_pc \in {"batch", "single"} /\ st_pc' = "done"

\* a record that is not written leaves file_size as it is
FailedRecordStep ==
    (Len(handed') = Len(handed) + 1 /\ ~handed'[Len(handed')].ok)
       => m_fileInfo'.file_size = m_fileInfo.file_size

\* C40: file_size changes only by payload size plus the fixed per-record
\* overhead for each record written with success, and by the reset to 0 on
\* Open, Close and rotation; a failed record leaves it unchanged; whenever
\* WriteMessage or WriteMessageBatch returns normally, with split_by_size and
\* max_file_size > 0, file_size < max_file_size
SizeAccountedAndBounded ==
    /\ [][SizeAccountingStep /\ FailedRecordStep]_vars
    /\ [][(WriteReturnsNormally /\ split_by_size /\ max_file_size > 0)
             => m_fileInfo'.file_size < max_file_size]_vars

=============================================================================
